---- MODULE Spec2Model ----
(***************************************************************************)
(* Player state machine of the Dreamcast MPEG player (src/mpeg.c): the     *)
(* cancellation evaluator mpeg_check_cancel, the blocking scheduler        *)
(* mpeg_play_ex, the non-blocking scheduler mpeg_decode_step, and the      *)
(* audio fill callback sound_callback that snd_stream_poll drives.         *)
(*                                                                         *)
(* Button masks are modelled as sets of button names: (b & m) != 0 is a    *)
(* non-empty intersection, (b & m) == m is m \subseteq b, m != 0 is m # {}.*)
(* Time is counted in frame intervals: picture i carries timestamp i - 1.  *)
(***************************************************************************)
EXTENDS Integers, Sequences, FiniteSets, TLC

VARIABLES
    cancel_options,  \* the mpeg_cancel_options_t handed to the evaluator / to play
    conts,           \* connected controllers, in maple enumeration order: their buttons
    kbds,            \* connected keyboards, in maple enumeration order: their keys down
    cancel,          \* mpeg_play_ex's local `cancel`: the last verdict
    verdicts,        \* the verdicts of the evaluator calls made by the current play
    player,          \* the fields of struct mpeg_player_t the schedulers use
    decoder,         \* the plm_t behind player->decoder: stream positions, loop flag
    snd,             \* the audio output stream behind player->snd_hnd
    now,             \* the last value read from timer_ns_gettime64()
    pc,              \* "idle": no call in progress, "play": inside mpeg_play_ex's loop
    ret,             \* the latest API call and what it returned
    rendered,        \* the pictures the current play has rendered, in order
    polls,           \* snd_stream_poll calls made by the current play
    play_from,       \* decoder.vpos when the current play was entered
    alog,            \* what the fill callback was asked for and returned so far
    gfx,             \* picture and texture dimensions, and the last upload
    res,             \* the resources a player owns, and how often each was released
    legacy_mask,     \* the cancel_buttons argument of the last mpeg_play
    configured,      \* the volume the application configured last, by the creation
                     \* options or by mpeg_player_set_volume, and the anchor then
    arg              \* the player argument of the latest call: "player", the
                     \* created player; "null"; "no_decoder", a struct whose
                     \* decoder pointer is NULL

\* the variables the schedulers leave alone
sideVars == <<alog, gfx, res, legacy_mask, configured>>

vars == <<cancel_options, conts, kbds, cancel, verdicts, player, decoder, snd,
          now, pc, ret, rendered, polls, play_from, alog, gfx, res, legacy_mask,
          configured, arg>>

(***************************************************************************)
(* Bounds of the model.                                                    *)
(***************************************************************************)
MaxControllers == 2   \* connected controllers in a snapshot
MaxKeyboards == 1     \* connected keyboards in a snapshot
MaxPics == 2          \* pictures in one pass of the stream
NumAudio == 2         \* audio chunks in one pass of the stream
MaxTime == 3          \* the clock stops being advanced here
MaxStep == 1          \* frame intervals that can pass between two timer reads
MaxCycles == 3        \* scheduler cycles of one play

NULL == 0

Min(a, b) == IF a < b THEN a ELSE b

(***************************************************************************)
(* Input devices and cancel specs.                                         *)
(***************************************************************************)
CONT_RESET_BUTTONS == {"A", "B", "X", "Y", "START"}

PadMasks == {{}, {"START"}, {"A", "DPAD_UP"}}

ContStates == {{}, {"START"}, {"A", "DPAD_UP"}, CONT_RESET_BUTTONS,
               CONT_RESET_BUTTONS \cup {"DPAD_UP"}}

Keys == {"ESC", "ENTER"}

KeyLists == {<<>>, <<"ESC">>, <<"ESC", "ENTER">>}

SeqsUpTo(S, n) == UNION {[1..k -> S] : k \in 0..n}

ContSnapshots == SeqsUpTo(ContStates, MaxControllers)

KbdSnapshots == SeqsUpTo(SUBSET Keys, MaxKeyboards)

\* cancel_options == NULL
NullOptions ==
    [null |-> TRUE, pad_button_any |-> {}, pad_button_combo |-> {},
     kbd_keys_any |-> <<>>, kbd_keys_combo |-> <<>>]

CancelSpecs ==
    [null : {FALSE}, pad_button_any : PadMasks, pad_button_combo : PadMasks,
     kbd_keys_any : KeyLists, kbd_keys_combo : KeyLists]

(***************************************************************************)
(* mpeg_check_cancel: 0 = no cancel, 1 = input, 2 = reset.                 *)
(***************************************************************************)
\* the reset combination counts when held, whatever else is pressed
ContVerdict_resetHeld(opt, buttons) ==
    IF opt.pad_button_any # {} /\ (buttons \cap opt.pad_button_any) # {}
    THEN 1
    ELSE IF opt.pad_button_combo # {}
            /\ (buttons \cap opt.pad_button_combo) = opt.pad_button_combo
    THEN 1
    ELSE IF CONT_RESET_BUTTONS \subseteq buttons
    THEN 2
    ELSE 0

\* the body of the controller loop for one controller; 0 = go on to the next
ContVerdict(opt, buttons) ==
    IF opt.pad_button_any # {} /\ (buttons \cap opt.pad_button_any) # {}
    THEN 1
    ELSE IF opt.pad_button_combo # {}
            /\ (buttons \cap opt.pad_button_combo) = opt.pad_button_combo
    THEN 1
    ELSE IF buttons = CONT_RESET_BUTTONS
    THEN 2
    ELSE 0

RECURSIVE ContLoop(_, _, _)
ContLoop(opt, cs, i) ==
    IF i > Len(cs) THEN 0
    ELSE LET v == ContVerdict(opt, cs[i])
         IN  IF v # 0 THEN v ELSE ContLoop(opt, cs, i + 1)

\* the body of the keyboard loop for one keyboard; 0 = go on to the next
KbdVerdict(opt, down) ==
    IF \E i \in 1..Len(opt.kbd_keys_any) : opt.kbd_keys_any[i] \in down
    THEN 1
    ELSE LET all_pressed ==
                 \A i \in 1..Len(opt.kbd_keys_combo) : opt.kbd_keys_combo[i] \in down
         IN  IF Len(opt.kbd_keys_combo) # 0 /\ all_pressed THEN 1 ELSE 0

RECURSIVE KbdLoop(_, _, _)
KbdLoop(opt, ks, i) ==
    IF i > Len(ks) THEN 0
    ELSE LET v == KbdVerdict(opt, ks[i])
         IN  IF v # 0 THEN v ELSE KbdLoop(opt, ks, i + 1)

\* a plausible variant: the reset combination is honoured without a spec
mpeg_check_cancel_resetWithoutSpec(opt, cs, ks) ==
    LET c == ContLoop(opt, cs, 1)
    IN  IF c # 0 THEN c
        ELSE IF opt.null THEN 0 ELSE KbdLoop(opt, ks, 1)

\* a plausible variant: only the first connected device of a category is polled
mpeg_check_cancel_firstDeviceOnly(opt, cs, ks) ==
    IF opt.null THEN 0
    ELSE LET c == ContLoop(opt, SubSeq(cs, 1, Min(1, Len(cs))), 1)
         IN  IF c # 0 THEN c
             ELSE KbdLoop(opt, SubSeq(ks, 1, Min(1, Len(ks))), 1)

mpeg_check_cancel(opt, cs, ks) ==
    IF opt.null THEN 0
    ELSE LET c == ContLoop(opt, cs, 1)
         IN  IF c # 0 THEN c ELSE KbdLoop(opt, ks, 1)

(***************************************************************************)
(* The decoder behind player->decoder and the audio stream behind          *)
(* player->snd_hnd, as mpeg.c uses them.  A world w is the triple          *)
(* [p |-> player, d |-> decoder, s |-> snd] the operators below transform. *)
(***************************************************************************)
PicTime(f) == f - 1

\* player->frame = plm_decode_video(player->decoder): the next picture, or none
\* at the end of the pass (the decoder then rewinds when it loops).  fail: the
\* stream yields no picture at the start of a pass (empty or corrupt stream).
plm_decode_video(w, fail) ==
    IF w.d.vpos = 0 /\ fail
    THEN [w EXCEPT !.p.frame = NULL]
    ELSE IF w.d.vpos < w.d.num_pics
    THEN [w EXCEPT !.p.frame = w.d.vpos + 1, !.d.vpos = @ + 1]
    ELSE IF w.d.loop
    THEN [w EXCEPT !.p.frame = NULL, !.d.vpos = 0, !.d.apos = 0]
    ELSE [w EXCEPT !.p.frame = NULL]

plm_get_loop(w) == w.d.loop

snd_stream_start(w) == [w EXCEPT !.s.running = TRUE]

snd_stream_stop(w) == [w EXCEPT !.s.running = FALSE]

snd_stream_volume(w) == [w EXCEPT !.s.volume = w.p.snd_volume]

\* if(player->start_time != 0) snd_stream_stop(player->snd_hnd);
reset_stop(w) == IF w.p.start_time # 0 THEN snd_stream_stop(w) ELSE w

\* player->snd_pcm_leftovers = 0;
reset_leftovers(w) == [w EXCEPT !.p.snd_pcm_leftovers = 0]

\* player->snd_pcm_offset = 0;
reset_offset(w) == [w EXCEPT !.p.snd_pcm_offset = 0]

\* player->snd_pcm_leftovers = 0; player->snd_pcm_offset = 0;
reset_write(w) == reset_offset(reset_leftovers(w))

sound_stream_reset(w) == reset_write(reset_stop(w))

\* PLM_AUDIO_SAMPLES_PER_FRAME * sizeof(short)
frame_bytes == 2304

\* the while loop of sound_callback; out counts the decoded bytes copied so far
\* the read offset is left where it was
NextOffset_stays(offset, chunk) == offset

\* player->snd_pcm_offset += chunk;
NextOffset(offset, chunk) == offset + chunk

RECURSIVE CallbackLoop(_, _, _)
CallbackLoop(w, needed, out) ==
    IF needed <= 0
    THEN [w |-> w, needed |-> needed, out |-> out]
    ELSE IF w.p.snd_pcm_leftovers > 0 /\ w.p.sample # NULL
    THEN LET chunk == Min(w.p.snd_pcm_leftovers, needed)
         IN  CallbackLoop([w EXCEPT !.p.snd_pcm_offset = NextOffset(@, chunk),
                                    !.p.snd_pcm_leftovers = @ - chunk,
                                    !.s.buf = Append(@,
                                        [at |-> out, len |-> chunk,
                                         src |-> <<w.p.sample, w.p.snd_pcm_offset>>])],
                          needed - chunk, out + chunk)
    ELSE IF w.d.apos < NumAudio
    THEN CallbackLoop([w EXCEPT !.p.sample = w.d.apos + 1, !.d.apos = @ + 1,
                                !.p.snd_pcm_offset = 0,
                                !.p.snd_pcm_leftovers = frame_bytes],
                      needed, out)
    ELSE [w |-> [w EXCEPT !.p.sample = NULL], needed |-> needed, out |-> out]

\* the shortfall left as it was
ZeroFill_none(buf, out, needed) == buf

\* MPEG_MEMZERO(dest + out, needed)
ZeroFill(buf, out, needed) ==
    IF needed > 0 THEN Append(buf, [at |-> out, len |-> needed, src |-> <<NULL, 0>>])
    ELSE buf

\* the size reported back is the number of decoded bytes copied
sound_callback_reportsCopied(w, request_size) ==
    LET r == CallbackLoop([w EXCEPT !.s.buf = <<>>], request_size, 0)
    IN  [r.w EXCEPT !.s.fill = [size_out |-> r.out, copied |-> r.out,
                                zeroed |-> IF r.needed > 0 THEN r.needed ELSE 0],
                    !.s.buf = ZeroFill(@, r.out, r.needed)]

\* the anchor is cleared when the source has no more audio
sound_callback_clearsAnchor(w, request_size) ==
    LET r == CallbackLoop([w EXCEPT !.s.buf = <<>>], request_size, 0)
    IN  [r.w EXCEPT !.s.fill = [size_out |-> request_size, copied |-> r.out,
                                zeroed |-> IF r.needed > 0 THEN r.needed ELSE 0],
                    !.s.buf = ZeroFill(@, r.out, r.needed),
                    !.p.start_time = IF r.needed > 0 THEN 0 ELSE @]

\* snd.buf: the writes into player->snd_buf made by the call, in order; a write
\* is [at, len, src]: len bytes at dest + at, copied from <<chunk, offset>> or,
\* with chunk NULL, zeroed
sound_callback(w, request_size) ==
    LET r == CallbackLoop([w EXCEPT !.s.buf = <<>>], request_size, 0)
    IN  [r.w EXCEPT !.s.fill = [size_out |-> request_size, copied |-> r.out,
                                zeroed |-> IF r.needed > 0 THEN r.needed ELSE 0],
                    !.s.buf = ZeroFill(@, r.out, r.needed)]

\* what the output device asks for on one poll; 0: it needs no data yet
PollRequests == {0, 1000}

\* snd_stream_poll(player->snd_hnd): a running stream that needs data calls
\* the fill callback registered by setup_audio
snd_stream_poll(w, req) ==
    IF w.s.running /\ req > 0 THEN sound_callback(w, req) ELSE w

(***************************************************************************)
(* The schedulers.                                                         *)
(***************************************************************************)
World == [p |-> player, d |-> decoder, s |-> snd]

SetWorld(w) ==
    /\ player' = w.p
    /\ decoder' = w.d
    /\ snd' = w.s

\* the cancel specs and input snapshots the play specification draws from
PlayOptions ==
    {NullOptions,
     [NullOptions EXCEPT !.null = FALSE, !.pad_button_any = {"START"}],
     [NullOptions EXCEPT !.null = FALSE, !.kbd_keys_combo = <<"ESC", "ENTER">>]}

PlayInputs ==
    {[conts |-> <<>>, kbds |-> <<>>],
     [conts |-> <<{"START"}>>, kbds |-> <<{"ESC"}>>],
     [conts |-> <<{}, CONT_RESET_BUTTONS>>, kbds |-> <<>>],
     [conts |-> <<{}>>, kbds |-> <<{"ESC", "ENTER"}>>]}

\* the next plm_decode_video finds the pass at its end and the decoder rewinds
AtLoopEnd == decoder.loop /\ decoder.vpos >= decoder.num_pics

\* the inputs an action draws when they can matter, a fixed one when not
Steps(used) == IF used THEN 0..MaxStep ELSE {0}

Fails(used) == IF used THEN BOOLEAN ELSE {FALSE}

\* if(cancel == 1 || cancel == 2)
CancelExits_inputOnly(c) == c = 1

CancelExits(c) == c = 1 \/ c = 2

\* result = (cancel == 1) ? MPEG_PLAY_CANCEL_INPUT : MPEG_PLAY_CANCEL_RESET
PlayResultOf(c) == IF c = 1 THEN "CANCEL_INPUT" ELSE "CANCEL_RESET"

\* no picture is ever due
FrameDue_never(playback_time, frame) == FALSE

\* a picture is due one tick before its time
FrameDue_early(playback_time, frame) == playback_time + 1 >= PicTime(frame)

\* a picture is due only once its time has passed
FrameDue_strict(playback_time, frame) == playback_time > PicTime(frame)

\* if(playback_time >= player->frame->time)
FrameDue(playback_time, frame) == playback_time >= PicTime(frame)

\* the render block of a cycle: scene begin, upload, draw, scene finish
\* a plausible variant: the primed first picture is never presented
RenderFrame_dropFirst(r, f) == IF f = 1 THEN r ELSE Append(r, f)

RenderFrame(r, f) == Append(r, f)

\* if(!plm_get_loop(player->decoder)) result = MPEG_PLAY_NORMAL
EndIsNormal_always(w) == TRUE

EndIsNormal(w) == ~plm_get_loop(w)

\* the result of a loop restart that decodes no picture
RestartFailResult_normal == "NORMAL"

RestartFailResult == "ERROR"

\* the anchor of the first pass is kept
RestartAnchor_kept(w, t) == w

\* player->start_time = timer_ns_gettime64() after a restart
RestartAnchor(w, t) == [w EXCEPT !.p.start_time = t]

\* finish: sound_stream_reset(player); player->start_time = 0;
PlayFinish(w) == [sound_stream_reset(w) EXCEPT !.p.start_time = 0]

\* mpeg_play_ex(player, &opt) up to the loop (valid player and decoder)
PlayExCall(opt) ==
    /\ \E dt \in 0..MaxStep, fail \in Fails(decoder.vpos = 0) :
          LET w1 == snd_stream_volume(snd_stream_start(sound_stream_reset(World)))
              w2 == plm_decode_video(w1, fail)
          IN  /\ cancel_options' = opt
              /\ cancel' = 0
              /\ verdicts' = <<>>
              /\ rendered' = <<>>
              /\ polls' = 0
              /\ play_from' = decoder.vpos
              /\ UNCHANGED <<conts, kbds>>
              /\ arg' = "player"
              /\ IF w2.p.frame = NULL
                 THEN /\ dt = 0
                      /\ SetWorld(sound_stream_reset(w2))
                      /\ ret' = [op |-> "play", val |-> "ERROR"]
                      /\ pc' = "idle"
                      /\ now' = now
                 ELSE /\ now + dt <= MaxTime
                      /\ SetWorld([w2 EXCEPT !.p.start_time = now + dt])
                      /\ ret' = [op |-> "play", val |-> "running"]
                      /\ pc' = "play"
                      /\ now' = now + dt

PlayEx ==
    /\ pc = "idle"
    /\ \E opt \in PlayOptions : PlayExCall(opt)
    /\ UNCHANGED sideVars

\* the cycle goes on without servicing the audio output
ServiceAudio_none(o, req) == o

\* Poll audio regardless: snd_stream_poll(player->snd_hnd);
ServiceAudio(o, req) == [o EXCEPT !.w = snd_stream_poll(@, req), !.polls = @ + 1]

\* one iteration of mpeg_play_ex's while(true), and finish when it leaves the
\* loop.  t1, t2: the timer reads; req: what the device asks for on the poll;
\* fail: the restart's decode yields no picture.
PlayCycleOutcome(w, opt, cs, ks, t1, t2, req, fail) ==
    LET playback_time == t1 - w.p.start_time
        c == mpeg_check_cancel(opt, cs, ks)
        base == [w |-> w, cancel |-> c, val |-> "running", t |-> t1,
                 rendered |-> rendered, polls |-> polls]
    IN  IF CancelExits(c)
        THEN [base EXCEPT !.w = PlayFinish(w), !.val = PlayResultOf(c)]
        ELSE LET polled == ServiceAudio(base, req)
                 w1 == polled.w
             IN  IF ~FrameDue(playback_time, w1.p.frame)
                 THEN polled
                 ELSE LET w2 == plm_decode_video(w1, FALSE)
                          drawn == [polled EXCEPT !.w = w2,
                                       !.rendered = RenderFrame(@, w1.p.frame)]
                      IN  IF w2.p.frame # NULL
                          THEN drawn
                          ELSE IF EndIsNormal(w2)
                          THEN [drawn EXCEPT !.w = PlayFinish(w2), !.val = "NORMAL"]
                          ELSE LET w3 == snd_stream_volume(snd_stream_start(
                                             sound_stream_reset(w2)))
                                   w4 == plm_decode_video(w3, fail)
                               IN  IF w4.p.frame = NULL
                                   THEN [drawn EXCEPT !.w = PlayFinish(w4),
                                                      !.val = RestartFailResult]
                                   ELSE [drawn EXCEPT
                                            !.w = [w4 EXCEPT !.p.start_time = t2],
                                            !.t = t2]

\* one cycle of the play in progress, the devices showing one of Inputs
PlayCycleWith(Inputs) ==
    /\ Len(verdicts) < MaxCycles
    /\ \E in \in Inputs, dt1 \in 0..MaxStep, dt2 \in Steps(AtLoopEnd),
          req \in PollRequests, fail \in Fails(AtLoopEnd) :
          /\ now + dt1 + dt2 <= MaxTime
          /\ LET o == PlayCycleOutcome(World, cancel_options, in.conts, in.kbds,
                                       now + dt1, now + dt1 + dt2, req, fail)
             IN  /\ SetWorld(o.w)
                 /\ conts' = in.conts
                 /\ kbds' = in.kbds
                 /\ cancel' = o.cancel
                 /\ verdicts' = Append(verdicts, o.cancel)
                 /\ rendered' = o.rendered
                 /\ polls' = o.polls
                 /\ now' = o.t
                 /\ ret' = [op |-> "play", val |-> o.val]
                 /\ pc' = IF o.val = "running" THEN "play" ELSE "idle"
                 /\ UNCHANGED <<cancel_options, play_from>>
                 /\ UNCHANGED sideVars
                 /\ UNCHANGED arg

PlayCycle ==
    /\ pc = "play"
    /\ PlayCycleWith(PlayInputs)

\* the arguments, locals and observations of the last mpeg_play_ex call are
\* kept until another call is made
DropPlayLocals ==
    /\ cancel_options' = NullOptions
    /\ conts' = <<>>
    /\ kbds' = <<>>
    /\ cancel' = 0
    /\ verdicts' = <<>>
    /\ rendered' = <<>>
    /\ polls' = 0
    /\ play_from' = 0

\* mpeg_decode_step (valid player and decoder).  t1, t2: the timer reads; req:
\* what the device asks for on the poll; fail1, fail2: a decode at the start of
\* a pass yields no picture; ub: what the read of player->frame->time does when
\* player->frame is NULL (undefined behaviour: a fault or an arbitrary value).
DecodeStepOutcome(w, t1, t2, req, fail1, fail2, ub) ==
    IF w.p.start_time = 0
    THEN LET w1 == snd_stream_volume(snd_stream_start(sound_stream_reset(w)))
             w2 == plm_decode_video(w1, fail1)
         IN  IF w2.p.frame = NULL
             THEN [w |-> w2, val |-> "EOF", t |-> now]
             ELSE [w |-> snd_stream_poll([w2 EXCEPT !.p.start_time = t1], req),
                   val |-> "FRAME", t |-> t1]
    ELSE LET playback_time == t1 - w.p.start_time
             w1 == snd_stream_poll(w, req)
             due == IF w1.p.frame = NULL THEN ub = "due"
                    ELSE FrameDue(playback_time, w1.p.frame)
         IN  IF w1.p.frame = NULL /\ ub = "fault"
             THEN [w |-> w1, val |-> "FAULT", t |-> t1]
             ELSE IF ~due
             THEN [w |-> w1, val |-> "IDLE", t |-> t1]
             ELSE LET w2 == plm_decode_video(w1, fail1)
                  IN  IF w2.p.frame # NULL
                      THEN [w |-> w2, val |-> "FRAME", t |-> t1]
                      ELSE IF ~plm_get_loop(w2)
                      THEN [w |-> sound_stream_reset(w2), val |-> "EOF", t |-> t1]
                      ELSE LET w3 == snd_stream_volume(snd_stream_start(
                                         sound_stream_reset(w2)))
                               w4 == plm_decode_video(w3, fail2)
                           IN  IF w4.p.frame = NULL
                               THEN [w |-> sound_stream_reset(w4), val |-> "EOF",
                                     t |-> t1]
                               ELSE [w |-> RestartAnchor(w4, t2),
                                     val |-> "FRAME", t |-> t2]

\* one call of mpeg_decode_step on the created player, its decodes at the
\* start of a pass failing as F1 and F2 allow, not later than tmax
DecodeStepWith(F1, F2, tmax) ==
    /\ \E dt1 \in 0..MaxStep, dt2 \in Steps(AtLoopEnd), req \in PollRequests,
          fail1 \in F1, fail2 \in F2,
          ub \in IF player.frame = NULL /\ player.start_time # 0
                 THEN {"fault", "due", "idle"} ELSE {"idle"} :
          /\ now + dt1 + dt2 <= tmax
          /\ LET o == DecodeStepOutcome(World, now + dt1, now + dt1 + dt2, req,
                                        fail1, fail2, ub)
             IN  /\ SetWorld(o.w)
                 /\ now' = o.t
                 /\ ret' = [op |-> "decode_step", val |-> o.val]
                 /\ pc' = IF o.val = "FAULT" THEN "fault" ELSE "idle"
    /\ DropPlayLocals
    /\ UNCHANGED sideVars
    /\ arg' = "player"

DecodeStep ==
    /\ pc = "idle"
    /\ DecodeStepWith(Fails(decoder.vpos = 0), Fails(AtLoopEnd), MaxTime)

\* mpeg_player_set_loop
SetLoop ==
    /\ pc = "idle"
    /\ \E loop \in BOOLEAN : decoder' = [decoder EXCEPT !.loop = loop]
    /\ ret' = [op |-> "set_loop", val |-> "void"]
    /\ DropPlayLocals
    /\ UNCHANGED <<player, snd, now, pc>>
    /\ UNCHANGED sideVars
    /\ arg' = "player"

(***************************************************************************)
(* The player after a successful mpeg_player_create_ex: the struct zeroed, *)
(* the options copied in, the audio stream allocated and not started.      *)
(***************************************************************************)
InitPlayer ==
    [frame |-> NULL, sample |-> NULL, snd_pcm_offset |-> 0, snd_pcm_leftovers |-> 0,
     snd_volume |-> 255, start_time |-> 0]

InitSnd ==
    [running |-> FALSE, volume |-> -1,
     fill |-> [size_out |-> 0, copied |-> 0, zeroed |-> 0], buf |-> <<>>]

\* what the creation options configured: player->snd_volume = opts->volume
InitConfigured == [volume |-> InitPlayer.snd_volume, anchor |-> 0]

\* nothing asked of the fill callback yet
InitLog == [reqs |-> <<>>, real |-> 0, zero |-> 0]

(***************************************************************************)
(* Texture size and upload.  A 32-bit object is the set of the positions   *)
(* of its one bits, so that all 32 bits are kept and nothing overflows.    *)
(***************************************************************************)
\* the bit positions of a uint32_t
Word == 0..31

RECURSIVE Pow2(_)
Pow2(k) == IF k = 0 THEN 1 ELSE 2 * Pow2(k - 1)

\* the word of a number below 2^31
Bits(n) == {i \in 0..30 : (n \div Pow2(i)) % 2 = 1}

RECURSIVE Val(_)
\* the number a word without the top bit stands for
Val(b) ==
    IF b = {} THEN 0
    ELSE LET i == CHOOSE j \in b : TRUE IN Pow2(i) + Val(b \ {i})

\* the word read as an int (two's complement)
IntOf(b) == IF 31 \in b THEN Val(b \ {31}) - Pow2(30) - Pow2(30) ELSE Val(b)

Lowest(b) == CHOOSE i \in b : \A j \in b : i <= j

\* n >> s
Shr(n, s) == {i - s : i \in {j \in n : j >= s}}

\* n-- for n # 0
Dec(n) == (n \ {Lowest(n)}) \cup {i \in Word : i < Lowest(n)}

\* n++, wrapping to 0 from 0xFFFFFFFF
Inc(n) ==
    IF Word \subseteq n THEN {}
    ELSE LET z == Lowest(Word \ n)
         IN  {i \in n : i > z} \cup {z}

\* the decrement left out
next_power_of_two_noDecrement(n) ==
    IF n = {} THEN {0}
    ELSE LET n1 == n \cup Shr(n, 1)
             n2 == n1 \cup Shr(n1, 2)
             n3 == n2 \cup Shr(n2, 4)
             n4 == n3 \cup Shr(n3, 8)
             n5 == n4 \cup Shr(n4, 16)
         IN  Inc(n5)

next_power_of_two(n) ==
    IF n = {} THEN {0}
    ELSE LET n0 == Dec(n)
             n1 == n0 \cup Shr(n0, 1)
             n2 == n1 \cup Shr(n1, 2)
             n3 == n2 \cup Shr(n2, 4)
             n4 == n3 \cup Shr(n3, 8)
             n5 == n4 \cup Shr(n4, 16)
         IN  Inc(n5)

\* nothing uploaded yet
NoUpload == [done |-> FALSE, rows |-> 0, real |-> 0, flushes |-> 0, stride |-> 0]

\* before setup_graphics: the picture size of the stream in width and height,
\* the static texture size still zero
NoGfx(width, height) ==
    [width |-> width, height |-> height, texture_width |-> {},
     texture_height |-> {}, setup |-> FALSE, upload |-> NoUpload,
     list_type |-> "OP_POLY", filter_mode |-> "unset", ops |-> <<>>,
     vert |-> <<>>, prims |-> <<>>]

\* setup_graphics: mpeg_texture_width/height, static ints, from the picture size
setup_texture_size(g) ==
    [g EXCEPT !.texture_width = next_power_of_two(g.width),
              !.texture_height = next_power_of_two(g.height),
              !.setup = TRUE]

\* sq_flush calls that make up one macroblock: 384 / 32
mb_sq_iters == 12

\* pad_blocks_x * mb_sq_iters is below the least int: the product overflows
\* and the loop bound is undefined
PadOverflows(pad_blocks_x) == pad_blocks_x < -(Pow2(30) \div 6)

\* what an overflowed loop bound may come to: no flush, or some
WrappedBounds(pad_blocks_x) == IF PadOverflows(pad_blocks_x) THEN {0, 1} ELSE {0}

\* the padding one flush per block short
PadFlushes_short(pad_blocks_x, wrapped) ==
    IF PadOverflows(pad_blocks_x) THEN wrapped
    ELSE IF pad_blocks_x > 0 THEN pad_blocks_x * (mb_sq_iters - 1) ELSE 0

\* for(i = 0; i < pad_blocks_x * mb_sq_iters; i++) sq_flush(d)
PadFlushes(pad_blocks_x, wrapped) ==
    IF PadOverflows(pad_blocks_x) THEN wrapped
    ELSE IF pad_blocks_x * mb_sq_iters > 0 THEN pad_blocks_x * mb_sq_iters ELSE 0

\* pvr_blocks_per_row = mpeg_texture_width >> 4
pvr_blocks_per_row(g) == IntOf(g.texture_width) \div 16

\* pad_blocks_x = pvr_blocks_per_row - video_blocks_w
PadBlocks(g) == IntOf(g.texture_width) \div 16 - IntOf(Shr(g.width, 4))

\* mpeg_upload_frame: every row of the picture gets the same writes, real
\* macroblock copies and then flushes
mpeg_upload_frame(g, frame, wrapped) ==
    IF frame = NULL THEN g
    ELSE LET video_blocks_w == IntOf(Shr(g.width, 4))
             video_blocks_h == IntOf(Shr(g.height, 4))
             pad_blocks_x == PadBlocks(g)
         IN  [g EXCEPT !.ops = Append(@, "upload"),
                       !.upload = [done |-> TRUE,
                                   rows |-> IF video_blocks_h > 0
                                            THEN video_blocks_h ELSE 0,
                                   real |-> IF video_blocks_w > 0
                                            THEN video_blocks_w ELSE 0,
                                   flushes |-> PadFlushes(pad_blocks_x, wrapped),
                                   stride |-> pvr_blocks_per_row(g)]]

\* a vertex of the quad: a corner of the screen rectangle, the texture
\* coordinate as the quotient <<picture size, texture size>> (<<>> for 0.0f),
\* and the command word
Vertex(x, y, u, v, flags) == [x |-> x, y |-> y, u |-> u, v |-> v, flags |-> flags]

\* the strip runs down the left edge first
setup_vertices_columnFirst(g) ==
    LET u == <<g.width, g.texture_width>>
        v == <<g.height, g.texture_height>>
    IN  [g EXCEPT !.vert = <<Vertex("left", "top", <<>>, <<>>, "VERTEX"),
                             Vertex("left", "bottom", <<>>, v, "VERTEX"),
                             Vertex("right", "top", u, <<>>, "VERTEX"),
                             Vertex("right", "bottom", u, v, "VERTEX_EOL")>>]

\* setup_graphics: u = width / mpeg_texture_width, v = height /
\* mpeg_texture_height, and player->vert[0..3]
setup_vertices(g) ==
    LET u == <<g.width, g.texture_width>>
        v == <<g.height, g.texture_height>>
    IN  [g EXCEPT !.vert = <<Vertex("left", "top", <<>>, <<>>, "VERTEX"),
                             Vertex("right", "top", u, <<>>, "VERTEX"),
                             Vertex("left", "bottom", <<>>, v, "VERTEX"),
                             Vertex("right", "bottom", u, v, "VERTEX_EOL")>>]

\* pvr_prim(&player->hdr, ...); pvr_prim(&player->vert[0..3], ...): what one
\* draw submits is kept in prims, the header as the list and filter it was
\* compiled for
Submitted(g) ==
    <<[list_type |-> g.list_type, filter_mode |-> g.filter_mode]>> \o g.vert

\* the header and the vertices are submitted whatever the picture
mpeg_draw_frame_unguarded(g, frame) ==
    [g EXCEPT !.ops = Append(@, "draw"), !.prims = Submitted(g)]

\* mpeg_draw_frame: the polygon header and the four vertices go to the list
mpeg_draw_frame(g, frame) ==
    IF frame = NULL THEN g
    ELSE [g EXCEPT !.ops = Append(@, "draw"), !.prims = Submitted(g)]

\* if(!player ...) return; of mpeg_upload_frame and mpeg_draw_frame
OnPlayer(a, g, done) == IF a = "null" THEN g ELSE done

\* { PVR_LIST_OP_POLY, PVR_FILTER_BILINEAR, 255, false }
MPEG_PLAYER_OPTIONS_DEFAULT ==
    [null |-> FALSE, list_type |-> "OP_POLY", filter_mode |-> "BILINEAR",
     volume |-> 255, loop |-> FALSE]

\* options == NULL
NoOptions == [null |-> TRUE]

\* the options given are not looked at
OptionsOf_defaultOnly(options) == MPEG_PLAYER_OPTIONS_DEFAULT

\* opts = options ? options : &MPEG_PLAYER_OPTIONS_DEFAULT
OptionsOf(options) ==
    IF options.null THEN MPEG_PLAYER_OPTIONS_DEFAULT ELSE options

\* mpeg_player_init: plm_set_loop(decoder, opts->loop); snd_volume = opts->volume
init_options(w, opts) ==
    [w EXCEPT !.d.loop = opts.loop, !.p.snd_volume = opts.volume]

\* mpeg_player_init: list_type = opts->list_type; setup_graphics: the polygon
\* header is compiled for that list with opts->filter_mode
init_render(g, opts) ==
    [g EXCEPT !.list_type = opts.list_type, !.filter_mode = opts.filter_mode]

\* the created player of the other specifications shows 320 x 240 pictures
InitGfx ==
    setup_vertices(init_render(setup_texture_size(NoGfx(Bits(320), Bits(240))),
                               MPEG_PLAYER_OPTIONS_DEFAULT))

(***************************************************************************)
(* Construction and destruction.  res is the heap as far as players are   *)
(* concerned, the caller's pointer and the owning fields of the struct:    *)
(*   live[k]   allocations of kind k not released yet                      *)
(*   twice[k]  releases of a k that had been released before               *)
(*   stale     reads of fields of a struct that had been released          *)
(*   f         the fields: TRUE for a non-NULL pointer or a valid handle   *)
(*   ptr       "null", "live", or "dangling" once the struct is released   *)
(*   fail      the step of the latest create that failed, or "none"        *)
(***************************************************************************)
Kinds == {"player", "decoder", "snd_buf", "texture", "snd_hnd"}

\* MPEG_MEMZERO(player, sizeof(mpeg_player_t)); snd_hnd = SND_STREAM_INVALID
NoFields == [decoder |-> FALSE, snd_buf |-> FALSE, texture |-> FALSE,
             snd_hnd |-> FALSE]

NoRes == [live |-> [k \in Kinds |-> 0], twice |-> [k \in Kinds |-> 0],
          stale |-> 0, f |-> NoFields, ptr |-> "null", creates |-> 0,
          fail |-> "none"]

\* a successful allocation of kind k, stored in its field
Acquire(r, k) ==
    [r EXCEPT !.live[k] = @ + 1,
              !.f = IF k = "player" THEN NoFields ELSE [@ EXCEPT ![k] = TRUE]]

\* a free or destroy call on what a field of the struct holds
Release(r, k) ==
    IF r.ptr = "live" THEN [r EXCEPT !.live[k] = @ - 1]
    ELSE [r EXCEPT !.twice[k] = @ + 1]

\* mpeg_player_destroy(player) where player is r.ptr; a dangling pointer
\* reads its fields out of released memory
mpeg_player_destroy(r) ==
    IF r.ptr = "null" THEN r
    ELSE LET r0 == IF r.ptr = "dangling" THEN [r EXCEPT !.stale = @ + 1] ELSE r
             r1 == IF r0.f.texture
                   THEN [Release(r0, "texture") EXCEPT !.f.texture = FALSE]
                   ELSE r0
             r2 == IF r1.f.snd_hnd
                   THEN [Release(r1, "snd_hnd") EXCEPT !.f.snd_hnd = FALSE,
                                                        !.f.snd_buf = FALSE]
                   ELSE r1
             r3 == IF r2.f.decoder
                   THEN [Release(r2, "decoder") EXCEPT !.f.decoder = FALSE]
                   ELSE r2
         IN  [Release(r3, "player") EXCEPT !.ptr = "dangling"]

\* the steps of a create that can fail
FailPoints == {"input", "player", "decoder", "snd_buf", "texture", "snd_hnd"}

\* a create that returns NULL: the caller is left without a pointer
CreateFailed(r) == [r EXCEPT !.ptr = "null"]

\* setup_audio: snd_stream_alloc
setup_audio(r, fail) ==
    IF fail = "snd_hnd" THEN [ok |-> FALSE, r |-> r]
    ELSE [ok |-> TRUE, r |-> Acquire(r, "snd_hnd")]

\* setup_graphics: MPEG_PVR_MALLOC of the texture
setup_graphics(r, fail) ==
    IF fail = "texture" THEN [ok |-> FALSE, r |-> r]
    ELSE [ok |-> TRUE, r |-> Acquire(r, "texture")]

mpeg_player_init(r, fail) ==
    IF fail = "snd_buf" THEN [ok |-> FALSE, r |-> mpeg_player_destroy(r)]
    ELSE LET g == setup_graphics(Acquire(r, "snd_buf"), fail)
         IN  IF ~g.ok THEN [ok |-> FALSE, r |-> mpeg_player_destroy(g.r)]
             ELSE LET a == setup_audio(g.r, fail)
                  IN  IF ~a.ok THEN [ok |-> FALSE, r |-> mpeg_player_destroy(a.r)]
                      ELSE a

\* mpeg_player_create_ex / mpeg_player_create_memory_ex; the caller's old
\* pointer, if any, is overwritten with the result
mpeg_player_create_ex(r, fail) ==
    LET r0 == [r EXCEPT !.creates = @ + 1, !.fail = fail, !.f = NoFields,
                        !.ptr = "null"]
    IN  IF fail \in {"input", "player"} THEN r0
        ELSE LET r1 == [Acquire(r0, "player") EXCEPT !.ptr = "live"]
             IN  IF fail = "decoder" THEN CreateFailed(mpeg_player_destroy(r1))
                 ELSE LET i == mpeg_player_init(Acquire(r1, "decoder"), fail)
                      IN  IF i.ok THEN i.r ELSE CreateFailed(i.r)

\* the resources of a created player: all acquired, none released
InitRes == mpeg_player_create_ex(NoRes, "none")

InitDecoders ==
    [num_pics : 0..MaxPics, vpos : {0}, apos : {0}, loop : BOOLEAN]

InitSide ==
    /\ alog = InitLog
    /\ gfx = InitGfx
    /\ res = InitRes
    /\ legacy_mask = {}
    /\ configured = InitConfigured
    /\ arg = "player"

Init ==
    /\ cancel_options = NullOptions
    /\ conts = <<>>
    /\ kbds = <<>>
    /\ cancel = 0
    /\ verdicts = <<>>
    /\ player = InitPlayer
    /\ decoder \in InitDecoders
    /\ snd = InitSnd
    /\ now = 1
    /\ pc = "idle"
    /\ ret = [op |-> "create", val |-> "ok"]
    /\ rendered = <<>>
    /\ polls = 0
    /\ play_from = 0
    /\ InitSide

Next == PlayEx \/ PlayCycle \/ DecodeStep \/ SetLoop

Spec == Init /\ [][Next]_vars

(***************************************************************************)
(* The evaluator on its own: every cancel spec against every snapshot.     *)
(***************************************************************************)
InitEval ==
    /\ cancel_options \in CancelSpecs \cup {NullOptions}
    /\ conts \in ContSnapshots
    /\ kbds \in KbdSnapshots
    /\ cancel = 0
    /\ verdicts = <<>>
    /\ player = InitPlayer
    /\ decoder = [num_pics |-> 0, vpos |-> 0, apos |-> 0, loop |-> FALSE]
    /\ snd = InitSnd
    /\ now = 1
    /\ pc = "eval"
    /\ ret = [op |-> "create", val |-> "ok"]
    /\ rendered = <<>>
    /\ polls = 0
    /\ play_from = 0
    /\ InitSide

Evaluate ==
    /\ pc = "eval"
    /\ cancel' = mpeg_check_cancel(cancel_options, conts, kbds)
    /\ verdicts' = <<cancel'>>
    /\ pc' = "evaluated"
    /\ UNCHANGED <<cancel_options, conts, kbds, player, decoder, snd, now, ret,
                   rendered, polls, play_from>>
    /\ UNCHANGED <<sideVars, arg>>

NextEval == Evaluate

SpecEval == InitEval /\ [][NextEval]_vars

(***************************************************************************)
(* Properties of the cancellation evaluator.                               *)
(***************************************************************************)
Evaluated == pc = "evaluated"

\* some connected controller holds exactly the reset combination
ResetHeld(cs) == \E i \in 1..Len(cs) : cs[i] = CONT_RESET_BUTTONS

PadMatch(opt, buttons) ==
    \/ opt.pad_button_any # {} /\ buttons \cap opt.pad_button_any # {}
    \/ opt.pad_button_combo # {} /\ opt.pad_button_combo \subseteq buttons

KbdMatch(opt, down) ==
    \/ \E i \in 1..Len(opt.kbd_keys_any) : opt.kbd_keys_any[i] \in down
    \/ /\ Len(opt.kbd_keys_combo) > 0
       /\ \A i \in 1..Len(opt.kbd_keys_combo) : opt.kbd_keys_combo[i] \in down

\* some connected device matches what the spec configures
ConfiguredMatch(opt, cs, ks) ==
    /\ ~opt.null
    /\ \/ \E i \in 1..Len(cs) : PadMatch(opt, cs[i])
       \/ \E j \in 1..Len(ks) : KbdMatch(opt, ks[j])

\* C1: when the reset combination is held on a connected controller and some
\* other configured match occurs in the same poll, the verdict is Reset (2),
\* never Input (1).
ResetHasPriority ==
    (Evaluated /\ ResetHeld(conts) /\ ConfiguredMatch(cancel_options, conts, kbds))
        => cancel = 2

\* C2 as stated: with a null cancel spec the verdict is None, except that a
\* held reset combination still yields Reset.
NullSpecStillResets ==
    (Evaluated /\ cancel_options.null)
        => cancel = (IF ResetHeld(conts) THEN 2 ELSE 0)

\* C2 as amended: with a null cancel spec the verdict is None for every input
\* snapshot, a held reset combination included.
NullSpecIsNone ==
    (Evaluated /\ cancel_options.null) => cancel = 0

NullSpecResetHeld ==
    Evaluated /\ cancel_options.null /\ ResetHeld(conts) /\ cancel = 0

PlayReturned == ret.op = "play" /\ pc = "idle"

CancelResults == {"CANCEL_INPUT", "CANCEL_RESET"}

\* C3: play with NULL cancel options never returns MPEG_PLAY_CANCEL_INPUT or
\* MPEG_PLAY_CANCEL_RESET, whatever the input snapshots.
NullOptionsNeverCancel ==
    (ret.op = "play" /\ cancel_options.null) => ret.val \notin CancelResults

NullOptionsResetIgnored ==
    /\ PlayReturned
    /\ cancel_options.null
    /\ verdicts # <<>>
    /\ ResetHeld(conts)
    /\ ret.val = "NORMAL"

\* C5: play goes on only while every verdict so far was None; when it returns
\* a cancel result the positive verdict is the last of exactly k evaluations
\* and the first positive one, render ran at most k times, and the cycle of
\* that evaluation serviced no audio, rendered nothing and decoded nothing.
CancelExitsImmediately ==
    /\ [](pc = "play" => \A i \in 1..Len(verdicts) : verdicts[i] = 0)
    /\ []((PlayReturned /\ ret.val \in CancelResults) =>
            /\ Len(verdicts) >= 1
            /\ \A i \in 1..(Len(verdicts) - 1) : verdicts[i] = 0
            /\ verdicts[Len(verdicts)] = (IF ret.val = "CANCEL_INPUT" THEN 1 ELSE 2)
            /\ Len(rendered) <= Len(verdicts))
    /\ [][(pc = "play" /\ ret'.val \in CancelResults) =>
            /\ Len(verdicts') = Len(verdicts) + 1
            /\ polls' = polls
            /\ rendered' = rendered
            /\ decoder' = decoder
            /\ player'.frame = player.frame
            /\ player'.sample = player.sample
            /\ snd'.fill = snd.fill]_vars

CancelAtThirdPoll ==
    /\ PlayReturned
    /\ ret.val = "CANCEL_INPUT"
    /\ Len(verdicts) = 3
    /\ Len(rendered) >= 1

\* C6: with loop disabled and no cancellation, a play of a source that yields
\* N >= 1 pictures and then none renders each of them exactly once, in decode
\* order, and returns Normal: Normal comes with exactly those renders, and
\* Error comes only when the first decode yielded no picture.
NormalRendersEveryPicture ==
    /\ (PlayReturned /\ ret.val = "NORMAL") =>
          /\ decoder.num_pics - play_from >= 1
          /\ rendered = [i \in 1..(decoder.num_pics - play_from) |-> play_from + i]
    /\ (PlayReturned /\ ~decoder.loop /\ ret.val = "ERROR") => rendered = <<>>

TwoPicturesPlayed ==
    /\ PlayReturned
    /\ ret.val = "NORMAL"
    /\ ~decoder.loop
    /\ rendered = <<1, 2>>

\* C7: play returns Normal only when a decode yielded no picture while the loop
\* flag was disabled; with loop enabled it ends by CancelInput, CancelReset or
\* Error only.
NormalOnlyAtEndWithoutLoop ==
    /\ (PlayReturned /\ ret.val = "NORMAL") => (~decoder.loop /\ player.frame = NULL)
    /\ (PlayReturned /\ decoder.loop) => ret.val \in CancelResults \cup {"ERROR"}

LoopingPlayCancelled ==
    /\ PlayReturned
    /\ decoder.loop
    /\ ret.val \in CancelResults
    /\ Len(rendered) > decoder.num_pics

\* C8: in play, a loop restart whose first decode yields no picture ends play
\* with Error, never Normal, and play does not go on looping without a picture.
RestartFailureIsError ==
    /\ (PlayReturned /\ decoder.loop /\ rendered # <<>> /\ player.frame = NULL)
          => ret.val = "ERROR"
    /\ pc = "play" => player.frame # NULL

RestartFailed ==
    /\ PlayReturned
    /\ decoder.loop
    /\ rendered # <<>>
    /\ player.frame = NULL
    /\ ret.val = "ERROR"

\* C10: whenever play returns after starting the audio output, the output has
\* been stopped and the leftover byte count and the read offset are both zero.
PlayReturnsAudioIdle ==
    PlayReturned =>
        /\ ~snd.running
        /\ player.snd_pcm_leftovers = 0
        /\ player.snd_pcm_offset = 0

(***************************************************************************)
(* Properties of the non-blocking scheduler mpeg_decode_step.              *)
(***************************************************************************)
\* C9: decode_step applies play's loop-restart policy: a loop restart whose
\* first decode yields no picture is reported as Error (Eof only at the end of
\* a stream that does not loop).
DecodeStepRestartFailureIsError ==
    (ret.op = "decode_step" /\ pc = "idle" /\ decoder.loop
        /\ player.start_time # 0 /\ player.frame = NULL)
        => ret.val = "ERROR"

(***************************************************************************)
(* The fill callback on its own: a started stream asked for any sequence   *)
(* of sizes, from the first request until well after the source is empty.  *)
(***************************************************************************)
\* most requests the stream makes in one run
MaxCalls == 4

\* the sizes the stream asks for: nothing, less than a chunk, what leaves 900
\* bytes of the source, more than a chunk
ReqSizes == {0, 50, 100, 1000, NumAudio * frame_bytes - 900, 4000}

\* no play in progress: the arguments and locals of mpeg_play_ex are unset
NoPlayLocals ==
    /\ cancel_options = NullOptions
    /\ conts = <<>>
    /\ kbds = <<>>
    /\ cancel = 0
    /\ verdicts = <<>>
    /\ rendered = <<>>
    /\ polls = 0
    /\ play_from = 0

RECURSIVE SumLen(_)
SumLen(writes) ==
    IF writes = <<>> THEN 0 ELSE Head(writes).len + SumLen(Tail(writes))

PcmWrites(buf) == SelectSeq(buf, LAMBDA x : x.src[1] # NULL)

ZeroWrites(buf) == SelectSeq(buf, LAMBDA x : x.src[1] = NULL)

InitAudio ==
    /\ NoPlayLocals
    /\ player = InitPlayer
    /\ decoder \in [num_pics : {1}, vpos : {0}, apos : {0}, loop : BOOLEAN]
    /\ snd = snd_stream_start([p |-> InitPlayer, s |-> InitSnd]).s
    /\ now = 1
    /\ pc = "audio"
    /\ ret = [op |-> "create", val |-> "ok"]
    /\ InitSide

\* the started stream calls the callback for req bytes
FillRequest ==
    /\ pc = "audio"
    /\ snd.running
    /\ Len(alog.reqs) < MaxCalls
    /\ \E req \in ReqSizes :
          LET w == sound_callback(World, req)
          IN  /\ SetWorld(w)
              /\ alog' = [reqs |-> Append(alog.reqs, req),
                          real |-> alog.real + SumLen(PcmWrites(w.s.buf)),
                          zero |-> alog.zero + SumLen(ZeroWrites(w.s.buf))]
    /\ UNCHANGED <<cancel_options, conts, kbds, cancel, verdicts, now, pc, ret,
                   rendered, polls, play_from, gfx, res, legacy_mask, configured, arg>>

NextAudio == FillRequest

SpecAudio == InitAudio /\ [][NextAudio]_vars

(***************************************************************************)
(* Properties of the fill callback.                                        *)
(***************************************************************************)
LastReq == alog.reqs[Len(alog.reqs)]

\* the writes follow one another from the start of the buffer and end at size
Tiles(buf, size) ==
    /\ \A i \in 1..Len(buf) :
          /\ buf[i].len > 0
          /\ buf[i].at = SumLen(SubSeq(buf, 1, i - 1))
    /\ SumLen(buf) = size

\* C11: after every request, whatever the size and the cursor state, the size
\* reported back is the size asked for and the writes of the call cover
\* exactly the first that many bytes of the buffer, each byte once.
FillIsExact ==
    alog.reqs # <<>> =>
        /\ snd.fill.size_out = LastReq
        /\ Tiles(snd.buf, LastReq)

\* a request served partly from a leftover and partly by zeroes, the source
\* having run out in the middle of it
FillAcrossTheEnd ==
    /\ alog.reqs # <<>>
    /\ Len(alog.reqs) > 1
    /\ PcmWrites(snd.buf) # <<>>
    /\ ZeroWrites(snd.buf) # <<>>
    /\ player.sample = NULL

\* the decoded bytes the source holds at the start
Available == NumAudio * frame_bytes

RECURSIVE SumSeq(_)
SumSeq(q) == IF q = <<>> THEN 0 ELSE Head(q) + SumSeq(Tail(q))

\* C12: over any sequence of requests, the bytes returned are the decoded
\* bytes as far as they last and zeroes for everything asked beyond them;
\* within a call the zeroes come after the decoded bytes.
ShortfallIsZero ==
    /\ alog.real = Min(SumSeq(alog.reqs), Available)
    /\ alog.zero = SumSeq(alog.reqs) - alog.real
    /\ \A i, j \in 1..Len(snd.buf) :
          snd.buf[i].src[1] = NULL /\ i < j => snd.buf[j].src[1] = NULL

\* 900 decoded bytes remain, then 100, 1000 and 50 are asked for: 1150 bytes
\* returned, the last 250 of them zero
ScenarioD ==
    /\ alog.reqs = <<Available - 900, 100, 1000, 50>>
    /\ alog.real = Available
    /\ alog.zero = 250
    /\ snd.buf = <<[at |-> 0, len |-> 50, src |-> <<NULL, 0>>]>>

\* where in the decoded audio of the source a copied piece starts
StreamPos(x) == (x.src[1] - 1) * frame_bytes + x.src[2]

\* C24: over any sequence of requests without a reset, the decoded bytes
\* copied are the chunks in decode order, each byte once: every piece starts
\* in the source where the bytes returned so far end and lies within one
\* chunk, a chunk is decoded only when the ones before it are used up, and
\* offset + leftover is the chunk size.
ChunksInOrder ==
    LET pcm    == PcmWrites(snd.buf)
        before == alog.real - SumLen(pcm)
    IN  /\ \A i \in 1..Len(pcm) :
              /\ StreamPos(pcm[i]) = before + SumLen(SubSeq(pcm, 1, i - 1))
              /\ pcm[i].src[2] + pcm[i].len <= frame_bytes
        /\ decoder.apos > 0 => alog.real >= (decoder.apos - 1) * frame_bytes
        /\ player.sample # NULL =>
              /\ player.sample = decoder.apos
              /\ alog.real = (player.sample - 1) * frame_bytes + player.snd_pcm_offset
              /\ player.snd_pcm_offset + player.snd_pcm_leftovers = frame_bytes

\* a request served by the rest of one chunk and the beginning of the next
ReadAcrossChunks ==
    LET pcm == PcmWrites(snd.buf)
    IN  /\ Len(pcm) = 2
        /\ pcm[1].src[1] = 1 /\ pcm[1].src[2] > 0
        /\ pcm[2].src = <<2, 0>>
        /\ player.snd_pcm_leftovers > 0

(***************************************************************************)
(* Calls on something that is not a usable player, mixed with the calls on *)
(* the created one.                                                        *)
(***************************************************************************)
\* what a caller may pass besides the created player
BadPlayers == {"null", "no_decoder"}

\* only a null pointer is turned away
PlayerUsable_nullOnly(a) == a # "null"

\* !(!player || !player->decoder)
PlayerUsable(a) == a # "null" /\ a # "no_decoder"

\* A call whose player argument is not the created player.  One that gets
\* past the guard goes on to read through the pointer it was given.
CallOnBadPlayer(op) ==
    /\ \E a \in BadPlayers :
          /\ arg' = a
          /\ IF PlayerUsable(a)
             THEN /\ ret' = [op |-> op, val |-> "FAULT"]
                  /\ pc' = "fault"
             ELSE /\ ret' = [op |-> op, val |-> "ERROR"]
                  /\ pc' = pc
    /\ DropPlayLocals
    /\ UNCHANGED <<player, decoder, snd, now>>
    /\ UNCHANGED sideVars

\* mpeg_play_ex(NULL, ...) or on a player without a decoder
PlayExInvalid ==
    /\ pc = "idle"
    /\ CallOnBadPlayer("play")

\* mpeg_decode_step(NULL) or on a player without a decoder
DecodeStepInvalid ==
    /\ pc = "idle"
    /\ CallOnBadPlayer("decode_step")

NextArgs == Next \/ PlayExInvalid \/ DecodeStepInvalid

SpecArgs == Init /\ [][NextArgs]_vars

\* C13: a play or decode_step call on a null player or on one without a
\* decoder returns Error and leaves the player, the decoder position, the
\* audio stream and the clock as they were; a play on the created player
\* whose first decode yields no picture returns Error as well.
InvalidCallsAreErrors ==
    [][/\ arg' \in BadPlayers =>
            /\ ret'.op \in {"play", "decode_step"}
            /\ ret'.val = "ERROR"
            /\ UNCHANGED <<player, decoder, snd, now, pc>>
       /\ pc = "idle" /\ arg' = "player" /\ ret'.op = "play" /\ player'.frame = NULL =>
            /\ ret'.val = "ERROR"
            /\ pc' = "idle"]_vars

\* a play on a player without a decoder, made after the created player has
\* played its pictures, has returned Error
InvalidPlayAfterPlay ==
    /\ arg = "no_decoder"
    /\ ret = [op |-> "play", val |-> "ERROR"]
    /\ pc = "idle"
    /\ decoder.vpos > 0

(***************************************************************************)
(* Players created, with every step of the creation failing or not, and    *)
(* destroyed, through a null, a live or an already destroyed pointer.      *)
(***************************************************************************)
\* most creates in one run
MaxCreates == 2

InitLife ==
    /\ NoPlayLocals
    /\ player = InitPlayer
    /\ decoder \in InitDecoders
    /\ snd = InitSnd
    /\ now = 1
    /\ pc = "life"
    /\ ret = [op |-> "none", val |-> "void"]
    /\ alog = InitLog
    /\ gfx = InitGfx
    /\ res = NoRes
    /\ legacy_mask = {}
    /\ configured = InitConfigured
    /\ arg = "null"

\* mpeg_player_create_ex with the default or the caller's options, while the
\* caller holds no live player
Create ==
    /\ pc = "life"
    /\ res.ptr # "live"
    /\ res.creates < MaxCreates
    /\ \E fail \in FailPoints \cup {"none"}, loop \in BOOLEAN :
          /\ res' = mpeg_player_create_ex(res, fail)
          /\ decoder' = IF fail \in {"none", "snd_buf", "texture", "snd_hnd"}
                        THEN [decoder EXCEPT !.loop = loop] ELSE decoder
          /\ ret' = [op |-> "create",
                     val |-> IF res'.ptr = "live" THEN "ok" ELSE "NULL"]
          /\ arg' = IF res'.ptr = "live" THEN "player" ELSE "null"
    /\ UNCHANGED <<cancel_options, conts, kbds, cancel, verdicts, player, snd,
                   now, pc, rendered, polls, play_from, alog, gfx, legacy_mask, configured>>

\* mpeg_player_destroy(NULL) or on the pointer the caller holds.  Through a
\* dangling pointer the fields are whatever the released memory holds now,
\* and the call may as well not return.
Destroy ==
    /\ pc = "life"
    /\ res.stale = 0
    /\ \E a \in {"null", res.ptr}, f \in [DOMAIN NoFields -> BOOLEAN],
          returns \in BOOLEAN :
          /\ res.ptr = "live" \/ a = "null" => f = res.f /\ returns
          /\ res' = IF a = "null" THEN res
                    ELSE mpeg_player_destroy([res EXCEPT !.f = f])
          /\ pc' = IF returns THEN pc ELSE "fault"
          /\ arg' = IF a = "live" THEN "player" ELSE a
    /\ ret' = [op |-> "destroy", val |-> "void"]
    /\ UNCHANGED <<cancel_options, conts, kbds, cancel, verdicts, player, decoder,
                   snd, now, rendered, polls, play_from, alog, gfx, legacy_mask, configured>>

NextLife == Create \/ Destroy

SpecLife == InitLife /\ [][NextLife]_vars

Allocated(r) == {k \in Kinds : r.live[k] > 0}

\* C14: a create that fails, at whichever step, returns NULL, leaves
\* allocated nothing that was not allocated before it, and releases nothing
\* twice.
FailedCreateReleasesAll ==
    [][ret'.op = "create" /\ res'.fail # "none" =>
          /\ ret'.val = "NULL"
          /\ res'.live = res.live
          /\ res'.twice = res.twice]_vars

\* C15: a destroy through a pointer that was destroyed before releases
\* nothing again, reads nothing that was released, and returns; a destroy
\* of NULL changes nothing.
DestroyIsIdempotent ==
    [][/\ ret'.op = "destroy" /\ arg' = "dangling" =>
            /\ res'.twice = res.twice
            /\ res'.stale = res.stale
            /\ pc' = pc
       /\ ret'.op = "destroy" /\ arg' = "null" => res' = res /\ pc' = pc]_vars

(***************************************************************************)
(* The caller-driven loop: decode_step called again and again on a fresh   *)
(* player whose stream is sound, so that every pass yields its pictures.   *)
(***************************************************************************)
\* the time the caller-driven loop is followed for
MaxStepTime == 5

InitStep ==
    /\ NoPlayLocals
    /\ player = InitPlayer
    /\ decoder \in [num_pics : 1..MaxPics, vpos : {0}, apos : {0}, loop : BOOLEAN]
    /\ snd = InitSnd
    /\ now = 1
    /\ pc = "idle"
    /\ ret = [op |-> "create", val |-> "ok"]
    /\ InitSide

\* mpeg_decode_step on a stream that decodes and restarts without failure
StepSound ==
    /\ pc = "idle"
    /\ DecodeStepWith({FALSE}, {FALSE}, MaxStepTime)

NextStep == StepSound

SpecStep == InitStep /\ [][NextStep]_vars

\* the picture after f in a stream of n pictures that is played in a loop
NextInLoop(f, n) == (f % n) + 1

\* C16: with loop enabled and a sound stream, every decode_step returns
\* Frame or Idle, never Eof; each Frame is the picture after the current
\* one, the first again after the last; the anchor is set anew exactly when
\* a pass starts; Idle decodes no picture.
LoopedStepsNeverEnd ==
    [][decoder.loop /\ ret'.op = "decode_step" =>
          /\ ret'.val \in {"FRAME", "IDLE"}
          /\ ret'.val = "FRAME" =>
                /\ player'.frame = NextInLoop(player.frame, decoder.num_pics)
                /\ IF player.frame \in {NULL, decoder.num_pics}
                   THEN player'.start_time = now'
                   ELSE player'.start_time = player.start_time
          /\ ret'.val = "IDLE" =>
                /\ player'.frame = player.frame
                /\ player'.start_time = player.start_time
                /\ decoder'.vpos = decoder.vpos]_vars

\* the second picture of a pass that started later than any first pass can
SecondPassPlayed ==
    /\ decoder.loop
    /\ decoder.num_pics = 2
    /\ player.frame = 2
    /\ player.start_time > 1 + MaxStep
    /\ ret = [op |-> "decode_step", val |-> "FRAME"]

\* C17: on a fresh player the first decode_step starts the audio, decodes
\* the first picture, takes the anchor and returns Frame; a later call, made
\* while a picture is current, returns Idle and decodes no picture exactly when
\* the time elapsed since the anchor is below that picture's time, and
\* otherwise decodes: the next picture, if the pass has one.
StepFollowsTimestamps ==
    [][ret'.op = "decode_step" =>
          /\ player.start_time = 0 =>
                /\ ret'.val = "FRAME"
                /\ snd'.running
                /\ player'.frame = 1
                /\ player'.start_time = now'
          /\ player.start_time # 0 /\ player.frame # NULL =>
                /\ ret'.val = "IDLE" <=>
                       now' - player.start_time < PicTime(player.frame)
                /\ ret'.val = "IDLE" =>
                       player'.frame = player.frame /\ decoder'.vpos = decoder.vpos
                /\ ret'.val # "IDLE" /\ player.frame < decoder.num_pics =>
                       /\ ret'.val = "FRAME"
                       /\ player'.frame = player.frame + 1]_vars

\* the second picture decoded at the very moment its time was reached, after
\* a call that came too early
SecondPictureOnTime ==
    /\ player.frame = 2
    /\ now - player.start_time = PicTime(2)
    /\ ret = [op |-> "decode_step", val |-> "FRAME"]
    /\ ~decoder.loop

(***************************************************************************)
(* Texture setup and upload for pictures of any size.                      *)
(***************************************************************************)
\* 2^k, 2^k - 1 and 2^k + 1 for every k, and some sizes of real streams
Widths ==
    {{}} \cup {{k} : k \in Word} \cup {{i \in Word : i < k} : k \in 1..32}
         \cup {{0, k} : k \in 1..31}
         \cup {Bits(8), Bits(24), Bits(320), Bits(352), Bits(640), Bits(1000)}

Heights == {Bits(16), Bits(240), Bits(1025), {31}, Word}

InitGraphics ==
    /\ NoPlayLocals
    /\ player = InitPlayer
    /\ decoder = [num_pics |-> 1, vpos |-> 0, apos |-> 0, loop |-> FALSE]
    /\ snd = InitSnd
    /\ now = 1
    /\ pc = "gfx"
    /\ ret = [op |-> "none", val |-> "void"]
    /\ alog = InitLog
    /\ gfx \in {NoGfx(w, h) : w \in Widths, h \in Heights}
    /\ res = InitRes
    /\ legacy_mask = {}
    /\ configured = InitConfigured
    /\ arg = "player"

\* setup_graphics, as far as the texture size goes
SetupGraphics ==
    /\ pc = "gfx"
    /\ ~gfx.setup
    /\ gfx' = setup_texture_size(gfx)
    /\ ret' = [op |-> "create", val |-> "ok"]
    /\ UNCHANGED <<cancel_options, conts, kbds, cancel, verdicts, player, decoder,
                   snd, now, pc, rendered, polls, play_from, alog, res,
                   legacy_mask, configured, arg>>

\* the first picture is decoded
DecodePicture ==
    /\ pc = "gfx"
    /\ gfx.setup
    /\ player.frame = NULL
    /\ SetWorld(plm_decode_video(World, FALSE))
    /\ ret' = [op |-> "decode", val |-> "void"]
    /\ UNCHANGED <<cancel_options, conts, kbds, cancel, verdicts, now, pc,
                   rendered, polls, play_from, alog, gfx, res, legacy_mask, configured, arg>>

\* mpeg_upload_frame(player)
UploadFrame ==
    /\ pc = "gfx"
    /\ gfx.setup
    /\ ~gfx.upload.done
    /\ \E wrapped \in WrappedBounds(PadBlocks(gfx)) :
          gfx' = mpeg_upload_frame(gfx, player.frame, wrapped)
    /\ ret' = [op |-> "upload_frame", val |-> "void"]
    /\ UNCHANGED <<cancel_options, conts, kbds, cancel, verdicts, player, decoder,
                   snd, now, pc, rendered, polls, play_from, alog, res,
                   legacy_mask, configured, arg>>

NextGraphics == SetupGraphics \/ DecodePicture \/ UploadFrame

SpecGraphics == InitGraphics /\ [][NextGraphics]_vars

\* a <= b as unsigned numbers
Leq(a, b) ==
    \/ a = b
    \/ \E i \in b \ a : \A j \in Word : j > i => (j \in a <=> j \in b)

\* t, stored in an int, is the smallest power of two that is at least n
SmallestPowerOfTwoFrom(t, n) ==
    /\ \E k \in 0..30 : t = {k}
    /\ Leq(n, t)
    /\ \A k \in Word : Leq(n, {k}) => Leq(t, {k})

\* C18 as stated: for every 32-bit picture width and height the texture
\* width and height set up are the smallest powers of two not below them.
TextureIsNextPowerOfTwo ==
    gfx.setup =>
        /\ SmallestPowerOfTwoFrom(gfx.texture_width, gfx.width)
        /\ SmallestPowerOfTwoFrom(gfx.texture_height, gfx.height)

\* the largest dimension whose next power of two an int holds: 2^30
FitsInt(n) == Leq(n, {30})

\* C18 amended: for every picture width and height up to 2^30 the texture
\* width and height set up are the smallest powers of two not below them.
TextureIsNextPowerOfTwoUpTo2e30 ==
    gfx.setup =>
        /\ FitsInt(gfx.width) =>
               SmallestPowerOfTwoFrom(gfx.texture_width, gfx.width)
        /\ FitsInt(gfx.height) =>
               SmallestPowerOfTwoFrom(gfx.texture_height, gfx.height)

\* a width just above 2^29 has got the texture width 2^30, and a height of
\* 1025 the texture height 2048
LargeTextureSetUp ==
    /\ gfx.setup
    /\ gfx.width = {0, 29}
    /\ gfx.texture_width = {30}
    /\ gfx.height = Bits(1025)
    /\ gfx.texture_height = Bits(2048)

\* the picture is not wider than the texture
WidthFits == 31 \notin gfx.texture_width /\ Leq(gfx.width, gfx.texture_width)

\* C19: when the picture is not wider than the texture, every row uploaded
\* is the picture's width in macroblocks of real blocks and then whole
\* padding blocks, none of them negative in number, up to the texture's
\* width in macroblocks.
RowsFillTheStride ==
    gfx.upload.done /\ WidthFits =>
        LET stride == IntOf(gfx.texture_width) \div 16
            padding == gfx.upload.flushes \div mb_sq_iters
        IN  /\ gfx.upload.real = IntOf(Shr(gfx.width, 4))
            /\ gfx.upload.flushes % mb_sq_iters = 0
            /\ padding = stride - gfx.upload.real
            /\ padding >= 0
            /\ gfx.upload.real + padding = stride

\* a 320 x 240 picture uploaded into a 512 x 256 texture: 20 real blocks and
\* 12 blocks of padding in each of 15 rows
Upload320 ==
    /\ gfx.upload = [done |-> TRUE, rows |-> 15, real |-> 20, flushes |-> 144,
                     stride |-> 32]
    /\ gfx.width = Bits(320)
    /\ gfx.texture_width = Bits(512)

(***************************************************************************)
(* The single-mask mpeg_play.                                              *)
(***************************************************************************)
\* the cancel_buttons masks callers pass
LegacyMasks == {{}, {"START"}, {"A", "START"}}

LegacyInputs ==
    {[conts |-> <<>>, kbds |-> <<>>],
     [conts |-> <<{"A"}>>, kbds |-> <<>>],
     [conts |-> <<{}, {"START", "B"}>>, kbds |-> <<{"ESC"}>>],
     [conts |-> <<{"B"}, CONT_RESET_BUTTONS>>, kbds |-> <<>>],
     [conts |-> <<{"B"}>>, kbds |-> <<{"ESC", "ENTER"}>>]}

\* the mask taken for buttons that must all be held
mpeg_play_options_combo(cancel_buttons) ==
    [null |-> FALSE, pad_button_any |-> {}, pad_button_combo |-> cancel_buttons,
     kbd_keys_any |-> <<>>, kbd_keys_combo |-> <<>>]

\* mpeg_cancel_options_t opts = { .pad_button_any = cancel_buttons };
mpeg_play_options(cancel_buttons) ==
    [null |-> FALSE, pad_button_any |-> cancel_buttons, pad_button_combo |-> {},
     kbd_keys_any |-> <<>>, kbd_keys_combo |-> <<>>]

\* mpeg_play(player, cancel_buttons)
Play ==
    /\ pc = "idle"
    /\ \E mask \in LegacyMasks :
          /\ PlayExCall(mpeg_play_options(mask))
          /\ legacy_mask' = mask
    /\ UNCHANGED <<alog, gfx, res, configured>>

LegacyCycle ==
    /\ pc = "play"
    /\ PlayCycleWith(LegacyInputs)

NextLegacy == Play \/ LegacyCycle

SpecLegacy == Init /\ [][NextLegacy]_vars

\* does controller state b decide a play whose only criterion is any-of mask
Decides(mask, b) == b \cap mask # {} \/ b = CONT_RESET_BUTTONS

\* the verdict of mpeg_play_ex's evaluator for a spec with nothing but the
\* any-of mask: the first controller that presses a button of the mask or
\* holds the reset combination decides
AnyOfVerdict(mask, cs) ==
    IF \E i \in 1..Len(cs) : Decides(mask, cs[i])
    THEN LET i == CHOOSE j \in 1..Len(cs) :
                      /\ Decides(mask, cs[j])
                      /\ \A k \in 1..(j - 1) : ~Decides(mask, cs[k])
         IN  IF cs[i] \cap mask # {} THEN 1 ELSE 2
    ELSE 0

\* C20: a play started by mpeg_play(player, mask) runs with a cancel spec
\* whose only populated field is the controller any-of mask: in every cycle
\* the verdict is that of the any-of mask on the controllers alone, the
\* play goes on while the verdicts are None and returns CancelInput or
\* CancelReset in the cycle of the first other verdict.
LegacyPlayIsAnyOf ==
    ret.op = "play" =>
        /\ ~cancel_options.null
        /\ cancel_options.pad_button_any = legacy_mask
        /\ cancel_options.pad_button_combo = {}
        /\ cancel_options.kbd_keys_any = <<>>
        /\ cancel_options.kbd_keys_combo = <<>>
        /\ verdicts # <<>> =>
              /\ cancel = AnyOfVerdict(legacy_mask, conts)
              /\ \A i \in 1..(Len(verdicts) - 1) : verdicts[i] = 0
              /\ cancel = 1 <=> ret.val = "CANCEL_INPUT"
              /\ cancel = 2 <=> ret.val = "CANCEL_RESET"
              /\ cancel # 0 => pc = "idle"

\* a two-button mask, one of its buttons pressed in the second cycle
OneOfTwoButtonsCancels ==
    /\ legacy_mask = {"A", "START"}
    /\ conts = <<{"A"}>>
    /\ Len(verdicts) = 2
    /\ ret = [op |-> "play", val |-> "CANCEL_INPUT"]
    /\ pc = "idle"

(***************************************************************************)
(* Creation with and without options.                                      *)
(***************************************************************************)
\* the options callers pass to the _ex creators; NULL: none
OptionChoices ==
    {NoOptions} \cup [null : {FALSE},
                 list_type : {"OP_POLY", "TR_POLY", "PT_POLY"},
                 filter_mode : {"NEAREST", "BILINEAR"},
                 volume : {0, 128, 255},
                 loop : BOOLEAN]

InitOptions ==
    /\ NoPlayLocals
    /\ player = InitPlayer
    /\ decoder \in InitDecoders
    /\ snd = InitSnd
    /\ now = 1
    /\ pc = "uncreated"
    /\ ret = [op |-> "none", val |-> "void"]
    /\ alog = InitLog
    /\ gfx = NoGfx(Bits(320), Bits(240))
    /\ res = NoRes
    /\ legacy_mask = {}
    /\ configured = InitConfigured
    /\ arg = "null"

\* a successful create through entry point op with the options it passes on
CreatePlayer(op, options) ==
    LET opts == OptionsOf(options)
        w == init_options([p |-> InitPlayer, d |-> decoder, s |-> InitSnd], opts)
    IN  /\ SetWorld(w)
        /\ gfx' = setup_vertices(init_render(setup_texture_size(gfx), opts))
        /\ res' = mpeg_player_create_ex(res, "none")
        /\ ret' = [op |-> op, val |-> "ok", options |-> options]
        /\ pc' = "created"
        /\ arg' = "player"
        /\ UNCHANGED <<cancel_options, conts, kbds, cancel, verdicts, now,
                       rendered, polls, play_from, alog, legacy_mask>>
        /\ configured' = [volume |-> opts.volume, anchor |-> 0]

\* mpeg_player_create / mpeg_player_create_memory
CreateDefault ==
    /\ pc = "uncreated"
    /\ CreatePlayer("create", MPEG_PLAYER_OPTIONS_DEFAULT)

\* mpeg_player_create_ex / mpeg_player_create_memory_ex
CreateEx ==
    /\ pc = "uncreated"
    /\ \E options \in OptionChoices : CreatePlayer("create_ex", options)

\* mpeg_player_get_loop: -1 for a null player, else the decoder's flag
mpeg_player_get_loop(w, a) ==
    IF a = "null" THEN -1 ELSE IF plm_get_loop(w) THEN 1 ELSE 0

GetLoop ==
    /\ pc = "created"
    /\ ret.op # "get_loop"
    /\ ret' = [ret EXCEPT !.op = "get_loop",
                          !.val = mpeg_player_get_loop(World, arg)]
    /\ UNCHANGED <<cancel_options, conts, kbds, cancel, verdicts, player, decoder,
                   snd, now, pc, rendered, polls, play_from, alog, gfx, res,
                   legacy_mask, configured, arg>>

NextOptions == CreateDefault \/ CreateEx \/ GetLoop

SpecOptions == InitOptions /\ [][NextOptions]_vars

\* the configuration a created player shows
Configured ==
    [null |-> FALSE, list_type |-> gfx.list_type,
     filter_mode |-> gfx.filter_mode, volume |-> player.snd_volume,
     loop |-> decoder.loop]

\* C21: a player created without options is configured as the documented
\* defaults say: opaque list, bilinear filter, volume 255, no loop; a player
\* created with options has their list, filter, volume and loop flag, and
\* get_loop returns that flag.
CreatedAsConfigured ==
    pc = "created" =>
        /\ ret.options.null \/ ret.op = "create" =>
              Configured = [null |-> FALSE, list_type |-> "OP_POLY",
                            filter_mode |-> "BILINEAR", volume |-> 255,
                            loop |-> FALSE]
        /\ ~ret.options.null => Configured = ret.options
        /\ ret.op = "get_loop" => ret.val = IF Configured.loop THEN 1 ELSE 0

\* created with options that differ from every default, and get_loop asked
LoopingTranslucentCreated ==
    /\ pc = "created"
    /\ ret = [op |-> "get_loop", val |-> 1,
              options |-> [null |-> FALSE, list_type |-> "TR_POLY",
                           filter_mode |-> "NEAREST", volume |-> 128,
                           loop |-> TRUE]]

(***************************************************************************)
(* mpeg_play_ex statement by statement, with the fill callback running in  *)
(* its own context: it may be invoked between any two statements of the    *)
(* scheduler while the stream is started.  pc names the statement the      *)
(* scheduler executes next.                                                *)
(***************************************************************************)
\* the time the statement-level play is followed for
MaxAsyncTime == 3

\* what the device asks of the callback when it runs on its own
AsyncRequests == {1000}

\* the scheduler is about to write the leftover/offset pair
WritePcs == {"enter:write", "fail:write", "restart:write", "finish:write",
             "enter:offset", "fail:offset", "restart:offset", "finish:offset"}

\* the stream has been started and the anchor of the pass is not taken yet
UnanchoredPcs == {"enter:decode", "enter:anchor", "restart:decode", "restart:anchor"}

InitAsync ==
    /\ NoPlayLocals
    /\ player = InitPlayer
    /\ decoder \in InitDecoders
    /\ snd = InitSnd
    /\ now = 1
    /\ pc = "idle"
    /\ ret = [op |-> "create", val |-> "ok"]
    /\ InitSide

\* a statement of the scheduler: from pc at to pc to, the world becoming w
Statement(at, to, w) ==
    /\ pc = at
    /\ pc' = to
    /\ SetWorld(w)
    /\ UNCHANGED <<cancel_options, conts, kbds, cancel, verdicts, now, rendered,
                   polls, play_from, alog, gfx, res, legacy_mask, configured, arg>>

\* mpeg_play_ex is called with a usable player
AsyncEnter ==
    /\ Statement("idle", "enter:stop", World)
    /\ ret' = [op |-> "play", val |-> "running"]

\* sound_stream_reset, first half, at one of its four call sites
AsyncResetStop ==
    /\ \E site \in {<<"enter:stop", "enter:write">>, <<"fail:stop", "fail:write">>,
                     <<"restart:stop", "restart:write">>,
                     <<"finish:stop", "finish:write">>} :
          Statement(site[1], site[2], reset_stop(World))
    /\ UNCHANGED ret

\* sound_stream_reset, the write of the leftover count
AsyncResetWrite ==
    /\ \E site \in {<<"enter:write", "enter:offset">>,
                     <<"fail:write", "fail:offset">>,
                     <<"restart:write", "restart:offset">>,
                     <<"finish:write", "finish:offset">>} :
          Statement(site[1], site[2], reset_leftovers(World))
    /\ UNCHANGED ret

\* sound_stream_reset, the write of the offset; after the one of the failed
\* first decode mpeg_play_ex returns MPEG_PLAY_ERROR
AsyncResetOffset ==
    /\ \E site \in {<<"enter:offset", "enter:start">>, <<"fail:offset", "idle">>,
                     <<"restart:offset", "restart:start">>,
                     <<"finish:offset", "finish:clear">>} :
          Statement(site[1], site[2], reset_offset(World))
    /\ ret' = IF pc = "fail:offset" THEN [op |-> "play", val |-> "ERROR"] ELSE ret

\* snd_stream_start; snd_stream_volume
AsyncStart ==
    /\ \E site \in {<<"enter:start", "enter:decode">>,
                     <<"restart:start", "restart:decode">>} :
          Statement(site[1], site[2], snd_stream_volume(snd_stream_start(World)))
    /\ UNCHANGED ret

\* player->frame = plm_decode_video(...) at the start of a pass
AsyncDecode ==
    \E fail \in BOOLEAN :
       LET w == plm_decode_video(World, fail)
       IN  \/ /\ Statement("enter:decode",
                            IF w.p.frame = NULL THEN "fail:stop" ELSE "enter:anchor",
                            w)
              /\ UNCHANGED ret
           \/ /\ Statement("restart:decode",
                            IF w.p.frame = NULL THEN "finish:stop"
                            ELSE "restart:anchor", w)
              /\ ret' = IF w.p.frame = NULL
                        THEN [op |-> "play", val |-> RestartFailResult] ELSE ret

\* player->start_time = timer_ns_gettime64()
AsyncAnchor ==
    /\ \E site \in {<<"enter:anchor", "loop">>, <<"restart:anchor", "loop">>} :
          Statement(site[1], site[2], [World EXCEPT !.p.start_time = now])
    /\ UNCHANGED ret

\* one pass through the while loop without a cancel verdict: the timer is
\* read, and if the picture is due it is rendered and the next one decoded
AsyncCycle ==
    /\ pc = "loop"
    /\ \E dt \in 0..MaxStep :
          /\ now + dt <= MaxAsyncTime
          /\ now' = now + dt
          /\ IF FrameDue(now' - player.start_time, player.frame)
             THEN LET w == plm_decode_video(World, FALSE)
                  IN  /\ SetWorld(w)
                      /\ pc' = IF w.p.frame # NULL THEN "loop"
                               ELSE IF EndIsNormal(w) THEN "finish:stop"
                               ELSE "restart:stop"
                      /\ ret' = IF w.p.frame = NULL /\ EndIsNormal(w)
                                THEN [op |-> "play", val |-> "NORMAL"] ELSE ret
             ELSE UNCHANGED <<player, decoder, snd, pc, ret>>
    /\ UNCHANGED <<cancel_options, conts, kbds, cancel, verdicts, rendered, polls,
                   play_from, alog, gfx, res, legacy_mask, configured, arg>>

\* finish: player->start_time = 0; return result;
AsyncReturn ==
    /\ Statement("finish:clear", "idle", [World EXCEPT !.p.start_time = 0])
    /\ UNCHANGED ret

\* the device invokes the fill callback
AsyncCallback ==
    /\ snd.running
    /\ Len(alog.reqs) < MaxCalls
    /\ \E req \in AsyncRequests :
          LET w == sound_callback(World, req)
          IN  /\ SetWorld(w)
              /\ alog' = [reqs |-> Append(alog.reqs, req),
                          real |-> alog.real + SumLen(PcmWrites(w.s.buf)),
                          zero |-> alog.zero + SumLen(ZeroWrites(w.s.buf))]
    /\ UNCHANGED <<cancel_options, conts, kbds, cancel, verdicts, now, pc, ret,
                   rendered, polls, play_from, gfx, res, legacy_mask, configured, arg>>

NextAsync ==
    \/ AsyncEnter \/ AsyncResetStop \/ AsyncResetWrite \/ AsyncResetOffset
    \/ AsyncStart
    \/ AsyncDecode \/ AsyncAnchor \/ AsyncCycle \/ AsyncReturn
    \/ AsyncCallback

SpecAsync == InitAsync /\ [][NextAsync]_vars

\* C22: whenever the scheduler is about to write the leftover/offset pair,
\* at play start, loop restart or exit, the stream is stopped, so that the
\* callback cannot be invoked around the write.
SchedulerWritesWhileStopped == pc \in WritePcs => ~snd.running

\* the step is an invocation of the fill callback
CallbackRuns == Len(alog'.reqs) > Len(alog.reqs)

\* C23: no invocation of the callback consumes decoded audio between the
\* (re)start of the audio output and the recording of the new anchor.
NoAudioBeforeAnchor ==
    [][CallbackRuns /\ alog'.real > alog.real => pc \notin UnanchoredPcs]_vars

\* the first read after a reset of the pair is taken at offset 0 of a chunk
\* decoded by that very invocation
FirstReadIsFresh ==
    [][CallbackRuns /\ player.snd_pcm_leftovers = 0 /\ PcmWrites(snd'.buf) # <<>>
         => /\ Head(PcmWrites(snd'.buf)).src[2] = 0
            /\ Head(PcmWrites(snd'.buf)).src[1] = decoder.apos + 1]_vars

\* C30: an invocation of the callback, wherever the scheduler stands, leaves
\* the current picture, the anchor, the volume, the loop flag and the render
\* state as they were; it works on the pair, the chunk and the output buffer.
CallbackKeepsToAudio ==
    [][CallbackRuns =>
         /\ player'.frame = player.frame
         /\ player'.start_time = player.start_time
         /\ player'.snd_volume = player.snd_volume
         /\ snd'.volume = snd.volume
         /\ snd'.running = snd.running
         /\ decoder'.loop = decoder.loop
         /\ gfx' = gfx
         /\ rendered' = rendered
         /\ pc' = pc]_vars

\* the callback has run out of audio in the middle of a pass, a picture being
\* current and the anchor taken
CallbackDuringPass ==
    /\ pc = "loop"
    /\ player.frame # NULL
    /\ player.start_time # 0
    /\ alog.reqs # <<>>
    /\ snd.fill.copied > 0
    /\ snd.fill.zeroed > 0

(***************************************************************************)
(* The order of work within a cycle of mpeg_play_ex.                       *)
(***************************************************************************)
\* the cycles of the current play that went past the cancel check
CyclesPastCancel == {i \in 1..Len(verdicts) : ~CancelExits(verdicts[i])}

\* C25: every cycle of play that does not exit on cancellation services the
\* audio output exactly once, whether a picture is due in it or not, and a
\* cycle that exits on cancellation does not.
OnePollPerCycle ==
    /\ [](polls = Cardinality(CyclesPastCancel))
    /\ [][Len(verdicts') = Len(verdicts) + 1 =>
             polls' = polls + (IF CancelExits(cancel') THEN 0 ELSE 1)]_vars

\* two cycles have gone by with no picture due, the output having been fed
PolledWithoutPicture ==
    /\ pc = "play"
    /\ rendered = <<>>
    /\ polls = 2
    /\ snd.fill.size_out > 0

(***************************************************************************)
(* mpeg_play_ex with its render block taken statement by statement, the    *)
(* clock running on its own, and mpeg_upload_frame / mpeg_draw_frame       *)
(* called by the application between plays.                                *)
(***************************************************************************)
\* the clock is followed up to here
MaxRenderTime == 4

\* pictures presented by one play
MaxRendered == 4

InitRender ==
    /\ NoPlayLocals
    /\ player = InitPlayer
    /\ decoder \in [num_pics : 1..MaxPics, vpos : {0}, apos : {0}, loop : BOOLEAN]
    /\ snd = InitSnd
    /\ now = 1
    /\ pc = "idle"
    /\ ret = [op |-> "create", val |-> "ok"]
    /\ InitSide

\* timer_ns_gettime64 moves on
Tick ==
    /\ now < MaxRenderTime
    /\ now' = now + 1
    /\ UNCHANGED <<cancel_options, conts, kbds, cancel, verdicts, player, decoder,
                   snd, pc, ret, rendered, polls, play_from, alog, gfx, res,
                   legacy_mask, configured, arg>>

\* mpeg_play_ex up to the loop; gfx.ops logs the graphics operations since
\* the call and, within it, since the scene began
RenderStart ==
    /\ pc = "idle"
    /\ now + PicTime(MaxPics) <= MaxRenderTime
    /\ \E fail \in Fails(decoder.vpos = 0) :
          LET w1 == snd_stream_volume(snd_stream_start(sound_stream_reset(World)))
              w2 == plm_decode_video(w1, fail)
          IN  IF w2.p.frame = NULL
              THEN /\ SetWorld(sound_stream_reset(w2))
                   /\ ret' = [op |-> "play", val |-> "ERROR"]
                   /\ pc' = "idle"
              ELSE /\ SetWorld([w2 EXCEPT !.p.start_time = now])
                   /\ ret' = [op |-> "play", val |-> "running"]
                   /\ pc' = "r:test"
    /\ rendered' = <<>>
    /\ play_from' = decoder.vpos
    /\ gfx' = [gfx EXCEPT !.ops = <<>>]
    /\ arg' = "player"
    /\ UNCHANGED <<cancel_options, conts, kbds, cancel, verdicts, now, polls,
                   alog, res, legacy_mask, configured>>

\* the head of a cycle: the timer is read, the cancel verdict c is taken, the
\* audio is polled and the time of the current picture is tested
RenderTestWith(c) ==
    /\ pc = "r:test"
    /\ \E req \in PollRequests :
          IF CancelExits(c)
          THEN /\ SetWorld(PlayFinish(World))
               /\ ret' = [op |-> "play", val |-> PlayResultOf(c)]
               /\ pc' = "idle"
          ELSE /\ SetWorld(snd_stream_poll(World, req))
               /\ ret' = ret
               /\ pc' = IF /\ FrameDue(now - player.start_time, player.frame)
                           /\ Len(rendered) < MaxRendered
                        THEN "r:scene_begin" ELSE "r:test"
    /\ UNCHANGED <<cancel_options, conts, kbds, cancel, verdicts, now, rendered,
                   polls, play_from, alog, gfx, res, legacy_mask, configured, arg>>

RenderTest ==
    /\ pc = "r:test"
    /\ \E c \in {0, 1} : RenderTestWith(c)

\* a statement of the render block: from pc at to pc to, gfx becoming g
RenderStatement(at, to, g) ==
    /\ pc = at
    /\ pc' = to
    /\ gfx' = g
    /\ UNCHANGED <<cancel_options, conts, kbds, cancel, verdicts, player, decoder,
                   snd, now, ret, polls, play_from, alog, res, legacy_mask, configured, arg>>

\* pvr_wait_ready(); pvr_scene_begin();
SceneBegin ==
    /\ RenderStatement("r:scene_begin", "r:upload",
                       [gfx EXCEPT !.ops = <<"scene_begin">>])
    /\ UNCHANGED rendered

\* mpeg_upload_frame(player);
RenderUpload ==
    /\ \E wrapped \in WrappedBounds(PadBlocks(gfx)) :
          RenderStatement("r:upload", "r:list_begin",
              OnPlayer("player", gfx, mpeg_upload_frame(gfx, player.frame, wrapped)))
    /\ UNCHANGED rendered

\* pvr_list_begin(player->list_type);
ListBegin ==
    /\ RenderStatement("r:list_begin", "r:draw",
                       [gfx EXCEPT !.ops = Append(@, "list_begin")])
    /\ UNCHANGED rendered

\* mpeg_draw_frame(player);
RenderDraw ==
    /\ RenderStatement("r:draw", "r:list_finish",
                       OnPlayer("player", gfx, mpeg_draw_frame(gfx, player.frame)))
    /\ rendered' = RenderFrame(rendered, player.frame)

\* pvr_list_finish();
ListFinish ==
    /\ RenderStatement("r:list_finish", "r:scene_finish",
                       [gfx EXCEPT !.ops = Append(@, "list_finish")])
    /\ UNCHANGED rendered

\* pvr_scene_finish();
SceneFinish ==
    /\ RenderStatement("r:scene_finish", "r:decode",
                       [gfx EXCEPT !.ops = Append(@, "scene_finish")])
    /\ UNCHANGED rendered

\* the next picture is decoded; at the end of the stream play finishes or,
\* looping, restarts
RenderDecode ==
    /\ pc = "r:decode"
    /\ \E fail \in Fails(AtLoopEnd) :
          LET w2 == plm_decode_video(World, FALSE)
              w3 == snd_stream_volume(snd_stream_start(sound_stream_reset(w2)))
              w4 == plm_decode_video(w3, fail)
          IN  IF w2.p.frame # NULL
              THEN SetWorld(w2) /\ pc' = "r:test" /\ ret' = ret
              ELSE IF EndIsNormal(w2)
              THEN /\ SetWorld(PlayFinish(w2))
                   /\ pc' = "idle"
                   /\ ret' = [op |-> "play", val |-> "NORMAL"]
              ELSE IF w4.p.frame = NULL
              THEN /\ SetWorld(PlayFinish(w4))
                   /\ pc' = "idle"
                   /\ ret' = [op |-> "play", val |-> RestartFailResult]
              ELSE /\ SetWorld(RestartAnchor(w4, now))
                   /\ pc' = "r:test"
                   /\ ret' = ret
    /\ UNCHANGED <<cancel_options, conts, kbds, cancel, verdicts, now, rendered,
                   polls, play_from, alog, gfx, res, legacy_mask, configured, arg>>

\* the application calls mpeg_upload_frame(a) or mpeg_draw_frame(a) itself
FrameCall(op, a, g) ==
    /\ ret.op \notin {op, "draw_frame"}
    /\ gfx' = g
    /\ arg' = a
    /\ ret' = [op |-> op, val |-> "void"]
    /\ UNCHANGED <<cancel_options, conts, kbds, cancel, verdicts, player, decoder,
                   snd, now, pc, rendered, polls, play_from, alog, res, legacy_mask, configured>>

UploadCall ==
    /\ pc = "idle"
    /\ \E a \in {"player", "null"}, wrapped \in WrappedBounds(PadBlocks(gfx)) :
          FrameCall("upload_frame", a,
                    OnPlayer(a, gfx, mpeg_upload_frame(gfx, player.frame, wrapped)))

DrawCall ==
    /\ pc = "idle"
    /\ \E a \in {"player", "null"} :
          FrameCall("draw_frame", a,
                    OnPlayer(a, gfx, mpeg_draw_frame(gfx, player.frame)))

NextRender ==
    \/ Tick \/ RenderStart \/ RenderTest \/ SceneBegin \/ RenderUpload
    \/ ListBegin \/ RenderDraw \/ ListFinish \/ SceneFinish \/ RenderDecode
    \/ UploadCall \/ DrawCall

SpecRender == InitRender /\ [][NextRender]_vars

\* the scheduler is inside the render block of a cycle
RenderPcs == {"r:scene_begin", "r:upload", "r:list_begin", "r:draw",
              "r:list_finish", "r:scene_finish"}

\* the graphics operations of one presented picture
SceneOps == <<"scene_begin", "upload", "list_begin", "draw", "list_finish",
              "scene_finish">>

\* the picture that follows f in the stream, the first one after the last
\* when looping
PictureAfter(f) == IF f = decoder.num_pics THEN 1 ELSE f + 1

\* C26: a picture is in the render block only when the time since the anchor
\* has reached its timestamp; the next picture is decoded only after the
\* scene of the current one was begun, uploaded, drawn and finished, in that
\* order; and the pictures presented by a play are consecutive pictures of
\* the stream from the first one decoded, none left out.
RenderedWhenDueInOrder ==
    /\ [](pc \in RenderPcs =>
            now - player.start_time >= PicTime(player.frame))
    /\ [](pc = "r:decode" =>
            /\ gfx.ops = SceneOps
            /\ rendered # <<>>
            /\ rendered[Len(rendered)] = player.frame)
    /\ [](\A i \in 1..Len(rendered) :
            rendered[i] = IF i = 1 THEN play_from + 1
                          ELSE PictureAfter(rendered[i - 1]))
    /\ [](ret = [op |-> "play", val |-> "NORMAL"] /\ pc = "idle" =>
            rendered # <<>> /\ rendered[Len(rendered)] = decoder.num_pics)
    /\ [][player'.frame # player.frame /\ player.frame # NULL /\ pc # "idle" =>
            pc = "r:decode"]_vars

\* the first picture has been presented, and not the second, although the
\* clock had passed the time of the second
LateFirstPicturePresented ==
    /\ pc = "r:decode"
    /\ decoder.num_pics = 2
    /\ rendered = <<1>>
    /\ player.start_time = 1
    /\ now = MaxRenderTime

\* the statements of a play in progress that no verdict cancels
PlayRuns ==
    \/ RenderTestWith(0) \/ SceneBegin \/ RenderUpload \/ ListBegin \/ RenderDraw
    \/ ListFinish \/ SceneFinish \/ RenderDecode

\* the thread in mpeg_play_ex keeps executing and the wall clock keeps
\* advancing; nothing is assumed about the verdicts
FairRender == SpecRender /\ WF_vars(PlayRuns) /\ WF_vars(Tick)

\* C27: with loop disabled and the clock advancing, a play in progress
\* eventually returns.
PlayReturnsEventually == (pc # "idle" /\ ~decoder.loop) ~> (pc = "idle")

\* a play without loop has waited for its pictures and returned Normal
WaitedAndReturned ==
    /\ pc = "idle"
    /\ ~decoder.loop
    /\ ret = [op |-> "play", val |-> "NORMAL"]
    /\ rendered = <<1, 2>>
    /\ now > 2

(***************************************************************************)
(* Two players in one program.  gfx.width and gfx.height are the picture   *)
(* size of the first; mpeg_texture_width and mpeg_texture_height are file  *)
(* statics, assigned by the setup_graphics of whichever player is created. *)
(***************************************************************************)
\* the picture sizes of the second player's stream
SecondSizes == {<<Bits(128), Bits(96)>>, <<Bits(320), Bits(240)>>,
                <<Bits(640), Bits(480)>>}

\* setup_graphics of another player, as far as the statics go
setup_second(g, size) ==
    [g EXCEPT !.texture_width = next_power_of_two(size[1]),
              !.texture_height = next_power_of_two(size[2])]

\* a second player is created after the first
SetupSecond ==
    /\ pc = "gfx"
    /\ gfx.setup
    /\ \E size \in SecondSizes : gfx' = setup_second(gfx, size)
    /\ ret' = [op |-> "create_second", val |-> "ok"]
    /\ UNCHANGED <<cancel_options, conts, kbds, cancel, verdicts, player, decoder,
                   snd, now, pc, rendered, polls, play_from, alog, res,
                   legacy_mask, configured, arg>>

NextTwoPlayers == NextGraphics \/ SetupSecond

SpecTwoPlayers == InitGraphics /\ [][NextTwoPlayers]_vars

\* C28: the blocks per row written when a frame of the first player is
\* uploaded are those of the texture width fixed at its own setup, whatever
\* players were created since.
StrideIsOwn ==
    gfx.upload.done =>
        gfx.upload.stride = pvr_blocks_per_row(setup_texture_size(gfx))

\* the step is a call of mpeg_upload_frame or mpeg_draw_frame by the
\* application
FrameCalled == pc = "idle" /\ ret' # ret /\ ret'.op \in {"upload_frame", "draw_frame"}

\* C29: mpeg_upload_frame and mpeg_draw_frame called with a null player, or
\* with a player that has no current picture, write nothing to the converter,
\* submit nothing to the render list and leave the player as it was.
FrameCallsWithoutPictureDoNothing ==
    [][FrameCalled /\ (arg' = "null" \/ player.frame = NULL) =>
         /\ gfx' = gfx
         /\ player' = player
         /\ decoder' = decoder
         /\ snd' = snd
         /\ rendered' = rendered]_vars

\* draw has been called on a player whose last decode yielded no picture,
\* and nothing was added to the operations of the last scene
DrawnAfterTheEnd ==
    /\ ret.op = "draw_frame"
    /\ arg = "player"
    /\ player.frame = NULL
    /\ rendered = <<1, 2>>
    /\ gfx.ops = SceneOps

\* the calls do act on a player that holds a picture
UploadedBetweenPlays ==
    /\ ret.op = "upload_frame"
    /\ arg = "player"
    /\ player.frame # NULL
    /\ gfx.ops = <<"upload">>

(***************************************************************************)
(* The reset verdict.                                                      *)
(***************************************************************************)
\* C31: the evaluator returns Reset only if the buttons of some connected
\* controller are exactly the reset combination; more buttons, fewer buttons
\* or keys of a keyboard never give Reset.
ResetOnlyOnExactCombination ==
    pc = "evaluated" /\ cancel = 2 =>
        \E i \in 1..Len(conts) : conts[i] = CONT_RESET_BUTTONS

\* the first controller holds the combination and one button more, the
\* second exactly the combination: Reset comes from the second
ResetFromSecondController ==
    /\ pc = "evaluated"
    /\ cancel = 2
    /\ conts = <<CONT_RESET_BUTTONS \cup {"DPAD_UP"}, CONT_RESET_BUTTONS>>
    /\ kbds = <<{"ESC", "ENTER"}>>

\* a controller holds the combination and one button more, another fewer,
\* every listed key is down, and the verdict is not Reset
NoResetFromSuperset ==
    /\ pc = "evaluated"
    /\ cancel = 0
    /\ conts = <<CONT_RESET_BUTTONS \cup {"DPAD_UP"}, {"START"}>>
    /\ ~cancel_options.null

(***************************************************************************)
(* The quad.                                                               *)
(***************************************************************************)
\* the quotient of a 320 x 240 picture and its 512 x 256 texture
UScale == <<Bits(320), Bits(512)>>

VScale == <<Bits(240), Bits(256)>>

\* C32: the vertices stay as setup left them, and every draw submits the
\* header and then the four vertices top-left, top-right, bottom-left,
\* bottom-right, with the u and v scale of the setup, the last one alone
\* flagged end of strip.
QuadIsFixed ==
    /\ gfx.vert = InitGfx.vert
    /\ gfx.list_type = InitGfx.list_type
    /\ gfx.filter_mode = InitGfx.filter_mode
    /\ gfx.prims # <<>> =>
          /\ Len(gfx.prims) = 5
          /\ gfx.prims[1] = [list_type |-> "OP_POLY", filter_mode |-> "BILINEAR"]
          /\ gfx.prims[2] = Vertex("left", "top", <<>>, <<>>, "VERTEX")
          /\ gfx.prims[3] = Vertex("right", "top", UScale, <<>>, "VERTEX")
          /\ gfx.prims[4] = Vertex("left", "bottom", <<>>, VScale, "VERTEX")
          /\ gfx.prims[5] = Vertex("right", "bottom", UScale, VScale, "VERTEX_EOL")

\* the first picture of the second pass of a looping play has been drawn
DrawnAfterRestart ==
    /\ pc = "r:list_finish"
    /\ decoder.loop
    /\ rendered = <<1, 2, 1>>
    /\ gfx.prims # <<>>

(***************************************************************************)
(* The cursor under interleaving.                                          *)
(***************************************************************************)
\* sound_stream_reset has written the leftover count and not yet the offset
MidResetPcs == {"enter:offset", "fail:offset", "restart:offset", "finish:offset"}

\* C33: outside a reset in progress, leftover and offset lie between 0 and
\* the chunk size, and either both are 0 or they add up to the chunk size.
CursorIsConsistent ==
    pc \notin MidResetPcs =>
        /\ player.snd_pcm_leftovers \in 0..frame_bytes
        /\ player.snd_pcm_offset \in 0..frame_bytes
        /\ \/ player.snd_pcm_leftovers = 0 /\ player.snd_pcm_offset = 0
           \/ player.snd_pcm_offset + player.snd_pcm_leftovers = frame_bytes

(***************************************************************************)
(* mpeg_decode_step after the end of the stream.                           *)
(***************************************************************************)
\* C34: between calls the anchor is set only while a picture is current, so
\* that no call of decode_step reads the time of an absent picture.
StepAlwaysHasItsPicture ==
    /\ pc = "idle" /\ player.start_time # 0 => player.frame # NULL
    /\ pc # "fault"

\* C35: whenever decode_step returns Eof the audio output has been stopped
\* and the leftover count and the offset are zero.
EofLeavesAudioIdle ==
    ret = [op |-> "decode_step", val |-> "EOF"] =>
        /\ ~snd.running
        /\ player.snd_pcm_leftovers = 0
        /\ player.snd_pcm_offset = 0

(***************************************************************************)
(* The two schedulers compared.                                            *)
(***************************************************************************)
\* C36: decode_step returns Frame for a picture only when the time elapsed
\* since the anchor has reached the time of that picture, as play presents a
\* picture only then.
StepPresentsWhenDue ==
    [][ret'.op = "decode_step" /\ ret'.val = "FRAME" =>
          now' - player'.start_time >= PicTime(player'.frame)]_vars

(***************************************************************************)
(* The volume.  The application sets it between its calls: before a play,  *)
(* between two plays, between two calls of mpeg_decode_step.               *)
(***************************************************************************)
\* the volumes the application sets
SetVolumes == {0, 128}

\* the volumes of the creation options
CreateVolumes == {128, 255}

\* the volume goes to the running stream and is not kept in the player
mpeg_player_set_volume_streamOnly(w, a, volume) ==
    IF a = "null" THEN w ELSE [w EXCEPT !.s.volume = volume]

\* if(!player) return; player->snd_volume = volume;
\* snd_stream_volume(player->snd_hnd, volume);
mpeg_player_set_volume(w, a, volume) ==
    IF a = "null" THEN w
    ELSE snd_stream_volume([w EXCEPT !.p.snd_volume = volume])

InitVolume ==
    /\ NoPlayLocals
    /\ \E v \in CreateVolumes :
          /\ player = [InitPlayer EXCEPT !.snd_volume = v]
          /\ configured = [volume |-> v, anchor |-> 0]
    /\ decoder \in [num_pics : 1..MaxPics, vpos : {0}, apos : {0}, loop : BOOLEAN]
    /\ snd = InitSnd
    /\ now = 1
    /\ pc = "idle"
    /\ ret = [op |-> "create", val |-> "ok"]
    /\ alog = InitLog
    /\ gfx = InitGfx
    /\ res = InitRes
    /\ legacy_mask = {}
    /\ arg = "player"

\* mpeg_player_set_volume(player, volume) between two calls
SetVolume ==
    /\ pc = "idle"
    /\ \E a \in {"player", "null"}, volume \in SetVolumes :
          /\ SetWorld(mpeg_player_set_volume(World, a, volume))
          /\ configured' = IF a = "null" THEN configured
                           ELSE [volume |-> volume, anchor |-> player.start_time]
          /\ arg' = a
    /\ ret' = [op |-> "set_volume", val |-> "void"]
    /\ DropPlayLocals
    /\ UNCHANGED <<now, pc, alog, gfx, res, legacy_mask>>

\* mpeg_play_ex without cancel options
VolumePlay ==
    /\ pc = "idle"
    /\ PlayExCall(NullOptions)
    /\ UNCHANGED sideVars

VolumeCycle ==
    /\ pc = "play"
    /\ PlayCycleWith({[conts |-> <<>>, kbds |-> <<>>]})

NextVolume == SetVolume \/ VolumePlay \/ VolumeCycle \/ StepSound

SpecVolume == InitVolume /\ [][NextVolume]_vars

\* C37: the player keeps the volume configured last, by the creation options
\* or by the latest mpeg_player_set_volume, and a started audio stream plays
\* at that volume: every start and restart applies it, none loses it.
VolumeIsLatest ==
    /\ player.snd_volume = configured.volume
    /\ snd.running => snd.volume = configured.volume

\* a volume set while the caller-driven playback was going on, the audio
\* started and anchored anew since, the stream playing at that volume
RestartedAtSetVolume ==
    /\ configured.anchor # 0
    /\ player.start_time > configured.anchor
    /\ ret = [op |-> "decode_step", val |-> "FRAME"]
    /\ snd.running
    /\ snd.volume = configured.volume
    /\ configured.volume \notin CreateVolumes
====
